---- MODULE Spec2Model ----
(***************************************************************************)
(* FluxGraph: signal store, namespaces, graph compiler, tick engine and    *)
(* the gRPC tick coordinator (FluxGraphServiceImpl), as a state machine.   *)
(* Every coordinator handler runs under state_mutex_, so each handler is   *)
(* one atomic action, except UpdateSignals, which releases the mutex while *)
(* it waits on tick_cv_ and is therefore split at the wait.                *)
(***************************************************************************)
EXTENDS Integers, Sequences, FiniteSets, TLC

\* ------------------------------------------------------------------------
\* Bounds of the exploration
\* ------------------------------------------------------------------------
MaxGen == 2        \* UpdateSignals is explored while tick_generation < MaxGen
MaxSessions == 2   \* session ids that can be live at the same time
MaxBatch == 2      \* longest signal batch of one UpdateSignals request
MaxTrace == 3      \* engine calls after a reset that are replayed
MaxQueue == 3      \* tick is explored while fewer commands await a drain
MaxEdges == 3      \* edges of a GraphSpec handed to the compiler
MaxModels == 2     \* models of a GraphSpec handed to the compiler
MaxApplies == 5    \* apply calls on one delay transform
\* calls on a transform before its clone is taken, and on each of the two
\* objects afterwards
MaxCloneCalls == 2

\* ------------------------------------------------------------------------
\* Program constants
\* ------------------------------------------------------------------------
INVALID_SIGNAL == -1      \* 0xFFFFFFFF, the sentinel of SignalId
INVALID_DEVICE == -1      \* 0xFFFFFFFF, the sentinel of DeviceId
nullopt == -1             \* std::nullopt of optional<uint64_t>
dt_ == 1                  \* the coordinator's timestep, one time unit

Range(s) == {s[i] : i \in DOMAIN s}

\* ------------------------------------------------------------------------
\* Namespaces: a namespace is the sequence of interned names, id = index-1
\* ------------------------------------------------------------------------
resolve(ns, path) ==
  IF \E i \in DOMAIN ns : ns[i] = path
    THEN (CHOOSE i \in DOMAIN ns : ns[i] = path) - 1
    ELSE INVALID_SIGNAL

intern(ns, path) ==
  IF resolve(ns, path) # INVALID_SIGNAL THEN ns ELSE Append(ns, path)

lookup(ns, id) ==
  IF id + 1 \in DOMAIN ns THEN ns[id + 1] ELSE ""

RECURSIVE internAll(_, _)
internAll(ns, paths) ==
  IF paths = <<>> THEN ns
  ELSE internAll(intern(ns, Head(paths)), Tail(paths))

\* The maps of a namespace as the code keeps them: path_to_id_, id_to_path_
\* and next_id_ (device_map_, device_reverse_, next_device_id_, and so on).
EmptyTable == [to_id |-> <<>>, to_name |-> <<>>, next_id |-> 0]

\* an intern that takes a fresh id on every call
TableInternAlwaysCounts(t, name) ==
  IF name \in DOMAIN t.to_id
    THEN [id |-> t.to_id[name], table |-> [t EXCEPT !.next_id = @ + 1]]
    ELSE [id |-> t.next_id,
          table |-> [to_id |-> (name :> t.next_id) @@ t.to_id,
                     to_name |-> (t.next_id :> name) @@ t.to_name,
                     next_id |-> t.next_id + 1]]

\* intern: [id, table]
TableIntern(t, name) ==
  IF name \in DOMAIN t.to_id THEN [id |-> t.to_id[name], table |-> t]
  ELSE [id |-> t.next_id,
        table |-> [to_id |-> (name :> t.next_id) @@ t.to_id,
                   to_name |-> (t.next_id :> name) @@ t.to_name,
                   next_id |-> t.next_id + 1]]

TableResolve(t, name) ==
  IF name \in DOMAIN t.to_id THEN t.to_id[name] ELSE INVALID_SIGNAL

TableLookup(t, id) ==
  IF id \in DOMAIN t.to_name THEN t.to_name[id] ELSE ""

\* ------------------------------------------------------------------------
\* Signal store: signals_, physics_driven_, declared_units_
\* ------------------------------------------------------------------------
DefaultSignal == [value |-> 0, unit |-> "dimensionless"]

EmptyStore == [signals |-> <<>>, physics_driven |-> {}, declared_units |-> <<>>]

StoreRead(st, id) ==
  IF id # INVALID_SIGNAL /\ id \in DOMAIN st.signals
    THEN st.signals[id] ELSE DefaultSignal

\* a write whose first unit, dimensionless included, becomes the declaration
StoreWriteFreezesFirst(st, id, value, unit) ==
  IF id = INVALID_SIGNAL THEN [ok |-> TRUE, store |-> st]
  ELSE
    LET normalized_unit == IF unit = "" THEN "dimensionless" ELSE unit
        declared == IF id \notin DOMAIN st.declared_units
                      THEN (id :> normalized_unit) @@ st.declared_units
                      ELSE st.declared_units
    IN IF declared[id] # normalized_unit
         THEN [ok |-> FALSE, store |-> st]
         ELSE [ok |-> TRUE,
               store |-> [st EXCEPT
                 !.declared_units = declared,
                 !.signals = (id :> [value |-> value, unit |-> normalized_unit])
                               @@ st.signals]]

\* write: [ok, store]; ok = FALSE is the thrown unit mismatch
StoreWrite(st, id, value, unit) ==
  IF id = INVALID_SIGNAL THEN [ok |-> TRUE, store |-> st]
  ELSE
    LET normalized_unit == IF unit = "" THEN "dimensionless" ELSE unit
        declared == IF id \notin DOMAIN st.declared_units
                       /\ normalized_unit # "dimensionless"
                      THEN (id :> normalized_unit) @@ st.declared_units
                      ELSE st.declared_units
    IN IF id \in DOMAIN declared /\ declared[id] # normalized_unit
         THEN [ok |-> FALSE, store |-> [st EXCEPT !.declared_units = declared]]
         ELSE [ok |-> TRUE,
               store |-> [st EXCEPT
                 !.declared_units = declared,
                 !.signals = (id :> [value |-> value, unit |-> normalized_unit])
                               @@ st.signals]]

mark_physics_driven(st, id) ==
  [st EXCEPT !.physics_driven = @ \cup {id}]

\* mark_physics_driven(id, driven)
set_physics_driven(st, id, driven) ==
  [st EXCEPT !.physics_driven = IF driven THEN @ \cup {id} ELSE @ \ {id}]

declare_unit(st, id, expected_unit) ==
  [st EXCEPT !.declared_units = (id :> expected_unit) @@ @]

\* a clear that forgets the declared units as well
StoreClearAll(st) ==
  [st EXCEPT !.signals = <<>>, !.physics_driven = {}, !.declared_units = <<>>]

StoreClear(st) ==
  [st EXCEPT !.signals = <<>>, !.physics_driven = {}]

\* ------------------------------------------------------------------------
\* Transforms (state kept in the compiled edge)
\* ------------------------------------------------------------------------
parse_transform(tspec) ==
  IF tspec.type = "linear"
    THEN [ok |-> TRUE,
          transform |-> [type |-> "linear", scale |-> tspec.scale,
                         offset |-> tspec.offset, delay_sec |-> 0,
                         buffer |-> <<>>]]
  ELSE IF tspec.type = "delay"
    THEN [ok |-> TRUE,
          transform |-> [type |-> "delay", scale |-> 0, offset |-> 0,
                         delay_sec |-> tspec.delay_sec, buffer |-> <<>>]]
  ELSE [ok |-> FALSE, transform |-> <<>>]

\* a delay that pops as soon as the buffer holds required_samples
TransformApplyPopAtFull(tf, input, dt) ==
  IF tf.type = "linear"
    THEN [output |-> tf.scale * input + tf.offset, transform |-> tf]
  ELSE IF tf.delay_sec <= 0
    THEN [output |-> input, transform |-> tf]
  ELSE
    LET raw == (2 * tf.delay_sec + dt) \div (2 * dt)
        required_samples == IF raw = 0 THEN 1 ELSE raw
        pushed == Append(tf.buffer, input)
    IN IF Len(pushed) >= required_samples
         THEN [output |-> Head(pushed),
               transform |-> [tf EXCEPT !.buffer = Tail(pushed)]]
         ELSE [output |-> Head(pushed),
               transform |-> [tf EXCEPT !.buffer = pushed]]

\* apply: [output, transform]
TransformApply(tf, input, dt) ==
  IF tf.type = "linear"
    THEN [output |-> tf.scale * input + tf.offset, transform |-> tf]
  ELSE IF tf.delay_sec <= 0
    THEN [output |-> input, transform |-> tf]
  ELSE
    LET raw == (2 * tf.delay_sec + dt) \div (2 * dt)
        required_samples == IF raw = 0 THEN 1 ELSE raw
        pushed == Append(tf.buffer, input)
    IN IF Len(pushed) > required_samples
         THEN [output |-> Head(pushed),
               transform |-> [tf EXCEPT !.buffer = Tail(pushed)]]
         ELSE [output |-> Head(pushed),
               transform |-> [tf EXCEPT !.buffer = pushed]]

TransformReset(tf) == [tf EXCEPT !.buffer = <<>>]

\* ------------------------------------------------------------------------
\* ThermalMassModel
\* ------------------------------------------------------------------------
\* dt > 2*C/h, with an infinite limit when h <= 0
ExceedsStabilityLimit(model, dt) ==
  /\ model.heat_transfer_coeff > 0
  /\ dt * model.heat_transfer_coeff > 2 * model.thermal_mass

\* tick: [ok, model, store]
ModelTick(model, dt, st) ==
  LET net_power == StoreRead(st, model.power_signal).value
      ambient == StoreRead(st, model.ambient_signal).value
      heat_loss == model.heat_transfer_coeff * (model.temperature - ambient)
      dT == ((net_power - heat_loss) \div model.thermal_mass) * dt
      temperature == model.temperature + dT
      w == StoreWrite(st, model.temp_signal, temperature, "degC")
      ticked == [model EXCEPT !.temperature = temperature]
  IN IF w.ok
       THEN [ok |-> TRUE, model |-> ticked,
             store |-> mark_physics_driven(w.store, model.temp_signal)]
       ELSE [ok |-> FALSE, model |-> ticked, store |-> w.store]

ModelReset(model) == [model EXCEPT !.temperature = model.initial_temp]

\* ------------------------------------------------------------------------
\* Graph compiler
\* ------------------------------------------------------------------------
\* parse_model for every model of the spec: [ok, models, ns]
RECURSIVE CompileModels(_, _, _)
CompileModels(mspecs, models, ns) ==
  IF mspecs = <<>> THEN [ok |-> TRUE, models |-> models, ns |-> ns]
  ELSE
    LET m == Head(mspecs)
    IN IF m.type # "thermal_mass"
         THEN [ok |-> FALSE, models |-> models, ns |-> ns]
         ELSE
           LET ns1 == internAll(ns, <<m.temp_signal, m.power_signal,
                                      m.ambient_signal>>)
               model == [id |-> m.id,
                         temp_signal |-> resolve(ns1, m.temp_signal),
                         power_signal |-> resolve(ns1, m.power_signal),
                         ambient_signal |-> resolve(ns1, m.ambient_signal),
                         thermal_mass |-> m.thermal_mass,
                         heat_transfer_coeff |-> m.heat_transfer_coeff,
                         temperature |-> m.initial_temp,
                         initial_temp |-> m.initial_temp]
           IN CompileModels(Tail(mspecs), Append(models, model), ns1)

\* the comparison dt >= limit in place of dt > limit
ValidateStabilityStrict(models, expected_dt) ==
  \A i \in DOMAIN models :
    ~(/\ models[i].heat_transfer_coeff > 0
      /\ expected_dt * models[i].heat_transfer_coeff
           >= 2 * models[i].thermal_mass)

validate_stability(models, expected_dt) ==
  \A i \in DOMAIN models : ~ExceedsStabilityLimit(models[i], expected_dt)

\* the edge loop of compile: [ok, edges, ns]
RECURSIVE CompileEdges(_, _, _)
CompileEdges(especs, edges, ns) ==
  IF especs = <<>> THEN [ok |-> TRUE, edges |-> edges, ns |-> ns]
  ELSE
    LET e == Head(especs)
        ns1 == internAll(ns, <<e.source_path, e.target_path>>)
        tf == parse_transform(e.transform)
    IN IF ~tf.ok THEN [ok |-> FALSE, edges |-> edges, ns |-> ns1]
       ELSE CompileEdges(Tail(especs),
              Append(edges, [source |-> resolve(ns1, e.source_path),
                             target |-> resolve(ns1, e.target_path),
                             transform |-> tf.transform,
                             is_delay |-> e.transform.type = "delay"]),
              ns1)

\* register_writer over the edge targets only
SingleWritersEdgesOnly(edges, models) ==
  \A i, j \in DOMAIN edges : i # j => edges[i].target # edges[j].target

\* register_writer over edge targets, then model outputs: no id twice
SingleWriters(edges, models) ==
  LET writers == [i \in DOMAIN edges |-> edges[i].target]
                   \o [i \in DOMAIN models |-> models[i].temp_signal]
  IN \A i, j \in DOMAIN writers : i # j => writers[i] # writers[j]

\* indices of the edges with the given is_delay flag, in spec order
RECURSIVE EdgeIndices(_, _, _)
EdgeIndices(edges, i, delay) ==
  IF i > Len(edges) THEN <<>>
  ELSE (IF edges[i].is_delay = delay THEN <<i>> ELSE <<>>)
         \o EdgeIndices(edges, i + 1, delay)

\* adjacency list of a node over the non-delay edges, in edge order
RECURSIVE Neighbors(_, _, _)
Neighbors(edges, i, node) ==
  IF i > Len(edges) THEN <<>>
  ELSE (IF ~edges[i].is_delay /\ edges[i].source = node
          THEN <<edges[i].target>> ELSE <<>>)
         \o Neighbors(edges, i + 1, node)

GraphNodes(edges) ==
  {edges[i].source : i \in {j \in DOMAIN edges : ~edges[j].is_delay}}
    \cup {edges[i].target : i \in {j \in DOMAIN edges : ~edges[j].is_delay}}

\* the colouring depth-first search of detect_cycles: [found, state]
\* state: 0 = unvisited, 1 = visiting, 2 = done
RECURSIVE Dfs(_, _, _)
RECURSIVE DfsNeighbors(_, _, _, _)
Dfs(edges, node, state) ==
  LET r == DfsNeighbors(edges, node, Neighbors(edges, 1, node),
                        [state EXCEPT ![node] = 1])
  IN IF r.found THEN r
     ELSE [found |-> FALSE, state |-> [r.state EXCEPT ![node] = 2]]

DfsNeighbors(edges, node, nbrs, state) ==
  IF nbrs = <<>> THEN [found |-> FALSE, state |-> state]
  ELSE
    LET neighbor == Head(nbrs)
    IN IF state[neighbor] = 0
         THEN LET r == Dfs(edges, neighbor, state)
              IN IF r.found THEN r
                 ELSE DfsNeighbors(edges, node, Tail(nbrs), r.state)
       ELSE IF state[neighbor] = 1
         THEN [found |-> TRUE, state |-> state]
       ELSE DfsNeighbors(edges, node, Tail(nbrs), state)

Min(S) == CHOOSE x \in S : \A y \in S : x <= y

\* the loop over the nodes of the graph map, in ascending id order
RECURSIVE DfsRoots(_, _, _)
DfsRoots(edges, todo, state) ==
  IF todo = {} THEN FALSE
  ELSE
    LET node == Min(todo)
    IN IF state[node] = 0
         THEN LET r == Dfs(edges, node, state)
              IN r.found \/ DfsRoots(edges, todo \ {node}, r.state)
         ELSE DfsRoots(edges, todo \ {node}, state)

\* the search run over every edge, delay edges included
DetectCyclesWithDelay(edges) ==
  LET all == [i \in DOMAIN edges |-> [edges[i] EXCEPT !.is_delay = FALSE]]
  IN DfsRoots(all, GraphNodes(all), [n \in GraphNodes(all) |-> 0])

\* the search that never reports a cycle
CyclesNeverFound(edges) == FALSE

\* TRUE iff detect_cycles throws
detect_cycles(edges) ==
  DfsRoots(edges, GraphNodes(edges), [n \in GraphNodes(edges) |-> 0])

\* outgoing[sig]: indices of the non-delay edges leaving sig, in edge order
RECURSIVE Outgoing(_, _, _)
Outgoing(edges, i, sig) ==
  IF i > Len(edges) THEN <<>>
  ELSE (IF ~edges[i].is_delay /\ edges[i].source = sig THEN <<i>> ELSE <<>>)
         \o Outgoing(edges, i + 1, sig)

\* the inner loop of Kahn's algorithm over the edges leaving one signal
RECURSIVE KahnEdges(_, _, _)
KahnEdges(edges, out, k) ==
  IF out = <<>> THEN k
  ELSE
    LET idx == Head(out)
    IN IF idx \in k.processed_edges THEN KahnEdges(edges, Tail(out), k)
       ELSE
         LET tgt == edges[idx].target
             deg == k.in_degree[tgt] - 1
         IN KahnEdges(edges, Tail(out),
              [ready |-> IF deg = 0 THEN k.ready \cup {tgt} ELSE k.ready,
               in_degree |-> [k.in_degree EXCEPT ![tgt] = deg],
               processed_edges |-> k.processed_edges \cup {idx},
               sorted |-> Append(k.sorted, idx)])

\* the outer loop: smallest ready SignalId first
RECURSIVE KahnLoop(_, _)
KahnLoop(edges, k) ==
  IF k.ready = {} THEN k.sorted
  ELSE
    LET sig == Min(k.ready)
    IN KahnLoop(edges,
         KahnEdges(edges, Outgoing(edges, 1, sig),
                   [k EXCEPT !.ready = k.ready \ {sig}]))

\* the edges left in spec order
SpecOrder(edges) == [ok |-> TRUE, edges |-> edges]

\* the edges in ascending order of their target's SignalId
SortByTarget(edges) ==
  [ok |-> TRUE,
   edges |-> [i \in DOMAIN edges |->
                CHOOSE e \in Range(edges) :
                  Cardinality({x \in Range(edges) : x.target < e.target})
                    = i - 1]]

\* topological_sort: [ok, edges]
topological_sort(edges) ==
  LET delay_indices == EdgeIndices(edges, 1, TRUE)
      immediate_indices == EdgeIndices(edges, 1, FALSE)
      all_signals == GraphNodes(edges)
      in_degree == [s \in all_signals |->
                      Cardinality({i \in Range(immediate_indices) :
                                     edges[i].target = s})]
      sorted_immediate_indices ==
        KahnLoop(edges,
          [ready |-> {s \in all_signals : in_degree[s] = 0},
           in_degree |-> in_degree,
           processed_edges |-> {},
           sorted |-> <<>>])
      order == delay_indices \o sorted_immediate_indices
  IN IF Len(sorted_immediate_indices) # Len(immediate_indices)
       THEN [ok |-> FALSE, edges |-> edges]
       ELSE [ok |-> TRUE, edges |-> [i \in DOMAIN order |-> edges[order[i]]]]

\* the rule loop of compile: [ok, rules, ns, fns]
RECURSIVE CompileActions(_, _, _)
CompileActions(actions, device_functions, fns) ==
  IF actions = <<>> THEN [device_functions |-> device_functions, fns |-> fns]
  ELSE
    LET a == Head(actions)
        fns1 == [devices |-> intern(fns.devices, a.device),
                 functions |-> intern(fns.functions, a.function)]
    IN CompileActions(Tail(actions),
         Append(device_functions,
                <<resolve(fns1.devices, a.device),
                  resolve(fns1.functions, a.function)>>),
         fns1)

RECURSIVE CompileRules(_, _, _, _)
CompileRules(rspecs, rules, ns, fns) ==
  IF rspecs = <<>> THEN [ok |-> TRUE, rules |-> rules, ns |-> ns, fns |-> fns]
  ELSE
    LET r == Head(rspecs)
    IN IF ~r.condition.syntax_ok
         THEN [ok |-> FALSE, rules |-> rules, ns |-> ns, fns |-> fns]
         ELSE
           LET ns1 == intern(ns, r.condition.signal_path)
               acts == CompileActions(r.actions, <<>>, fns)
               rule == [id |-> r.id,
                        signal_id |-> resolve(ns1, r.condition.signal_path),
                        op |-> r.condition.op,
                        rhs |-> r.condition.rhs,
                        device_functions |-> acts.device_functions,
                        args_list |-> [i \in DOMAIN r.actions |->
                                         r.actions[i].args]]
           IN CompileRules(Tail(rspecs), Append(rules, rule), ns1, acts.fns)

EmptyFuncNs == [devices |-> <<>>, functions |-> <<>>]
EmptyProgram == [edges |-> <<>>, models |-> <<>>, rules |-> <<>>]

\* compile: [ok, error, program, signal_ns, func_ns]; on a throw the namespaces
\* keep what had been interned up to the throw
compile(spec, signal_ns, func_ns, expected_dt) ==
  LET ms == CompileModels(spec.models, <<>>, signal_ns)
      es == CompileEdges(spec.edges, <<>>, ms.ns)
      ts == topological_sort(es.edges)
      rs == CompileRules(spec.rules, <<>>, es.ns, func_ns)
      Fail(error, ns, fns) == [ok |-> FALSE, error |-> error,
                               program |-> EmptyProgram,
                               signal_ns |-> ns, func_ns |-> fns]
  IN IF ~ms.ok THEN Fail("Unknown model type", ms.ns, func_ns)
     ELSE IF expected_dt > 0 /\ ~validate_stability(ms.models, expected_dt)
       THEN Fail("Stability violation", ms.ns, func_ns)
     ELSE IF ~es.ok THEN Fail("Unknown transform type", es.ns, func_ns)
     ELSE IF ~SingleWriters(es.edges, ms.models)
       THEN Fail("Multiple writers", es.ns, func_ns)
     ELSE IF detect_cycles(es.edges)
       THEN Fail("Cycle detected in non-delay subgraph", es.ns, func_ns)
     ELSE IF ~ts.ok THEN Fail("topological sort failed", es.ns, func_ns)
     ELSE IF ~rs.ok
       THEN Fail("Unsupported rule condition syntax", rs.ns, rs.fns)
     ELSE [ok |-> TRUE, error |-> "",
           program |-> [edges |-> ts.edges, models |-> ms.models,
                        rules |-> rs.rules],
           signal_ns |-> rs.ns, func_ns |-> rs.fns]

\* ------------------------------------------------------------------------
\* Engine
\* ------------------------------------------------------------------------
EmptyEngine == [loaded |-> FALSE, edges |-> <<>>, models |-> <<>>,
                rules |-> <<>>, command_queue |-> <<>>]

EngineLoad(eng, program) ==
  [eng EXCEPT !.edges = program.edges, !.models = program.models,
              !.rules = program.rules, !.loaded = TRUE]

\* update_models from model i on: [ok, models, store]
RECURSIVE update_models(_, _, _, _)
update_models(models, i, dt, st) ==
  IF i > Len(models) THEN [ok |-> TRUE, models |-> models, store |-> st]
  ELSE
    LET r == ModelTick(models[i], dt, st)
        models1 == [models EXCEPT ![i] = r.model]
    IN IF ~r.ok THEN [ok |-> FALSE, models |-> models1, store |-> r.store]
       ELSE update_models(models1, i + 1, dt, r.store)

\* process_edges from edge i on: [ok, edges, store]
RECURSIVE process_edges(_, _, _, _)
process_edges(edges, i, dt, st) ==
  IF i > Len(edges) THEN [ok |-> TRUE, edges |-> edges, store |-> st]
  ELSE
    LET source == StoreRead(st, edges[i].source)
        a == TransformApply(edges[i].transform, source.value, dt)
        edges1 == [edges EXCEPT ![i].transform = a.transform]
        w == StoreWrite(st, edges[i].target, a.output, source.unit)
    IN IF ~w.ok THEN [ok |-> FALSE, edges |-> edges1, store |-> w.store]
       ELSE process_edges(edges1, i + 1, dt, w.store)

Condition(rule, st) ==
  LET v == StoreRead(st, rule.signal_id).value
  IN CASE rule.op = "<" -> v < rule.rhs
       [] rule.op = "<=" -> v <= rule.rhs
       [] rule.op = ">" -> v > rule.rhs
       [] rule.op = ">=" -> v >= rule.rhs
       [] rule.op = "==" -> v = rule.rhs
       [] OTHER -> v # rule.rhs

\* evaluate_rules from rule i on: the command queue
RECURSIVE evaluate_rules(_, _, _, _)
evaluate_rules(rules, i, st, queue) ==
  IF i > Len(rules) THEN queue
  ELSE
    LET rule == rules[i]
        emitted == [j \in DOMAIN rule.device_functions |->
                      [device |-> rule.device_functions[j][1],
                       function |-> rule.device_functions[j][2],
                       args |-> rule.args_list[j]]]
    IN evaluate_rules(rules, i + 1, st,
         IF Condition(rule, st) THEN queue \o emitted ELSE queue)

\* the edge stage runs before the model stage
EngineTickEdgesFirst(eng, dt, st) ==
  IF ~eng.loaded \/ dt <= 0
       \/ \E i \in DOMAIN eng.models : ExceedsStabilityLimit(eng.models[i], dt)
    THEN [ok |-> FALSE, engine |-> eng, store |-> st]
  ELSE
    LET es == process_edges(eng.edges, 1, dt, st)
        ms == update_models(eng.models, 1, dt, es.store)
    IN IF ~es.ok
         THEN [ok |-> FALSE, engine |-> [eng EXCEPT !.edges = es.edges],
               store |-> es.store]
       ELSE IF ~ms.ok
         THEN [ok |-> FALSE,
               engine |-> [eng EXCEPT !.models = ms.models,
                                      !.edges = es.edges],
               store |-> ms.store]
       ELSE [ok |-> TRUE,
             engine |-> [eng EXCEPT
               !.models = ms.models, !.edges = es.edges,
               !.command_queue =
                 evaluate_rules(eng.rules, 1, ms.store, eng.command_queue)],
             store |-> ms.store]

\* the model stage runs before the checks of tick
EngineTickUnguarded(eng, dt, st) ==
  LET ms == update_models(eng.models, 1, dt, st)
  IN [ok |-> FALSE, engine |-> [eng EXCEPT !.models = ms.models],
      store |-> ms.store]

\* tick: [ok, engine, store]; a throw keeps what the stages before it did
EngineTick(eng, dt, st) ==
  IF ~eng.loaded \/ dt <= 0
       \/ \E i \in DOMAIN eng.models : ExceedsStabilityLimit(eng.models[i], dt)
    THEN [ok |-> FALSE, engine |-> eng, store |-> st]
  ELSE
    LET ms == update_models(eng.models, 1, dt, st)
        es == process_edges(eng.edges, 1, dt, ms.store)
    IN IF ~ms.ok
         THEN [ok |-> FALSE, engine |-> [eng EXCEPT !.models = ms.models],
               store |-> ms.store]
       ELSE IF ~es.ok
         THEN [ok |-> FALSE,
               engine |-> [eng EXCEPT !.models = ms.models,
                                      !.edges = es.edges],
               store |-> es.store]
       ELSE [ok |-> TRUE,
             engine |-> [eng EXCEPT
               !.models = ms.models, !.edges = es.edges,
               !.command_queue =
                 evaluate_rules(eng.rules, 1, es.store, eng.command_queue)],
             store |-> es.store]

EngineReset(eng) ==
  [eng EXCEPT
     !.models = [i \in DOMAIN eng.models |-> ModelReset(eng.models[i])],
     !.edges = [i \in DOMAIN eng.edges |->
                  [eng.edges[i] EXCEPT !.transform = TransformReset(@)]],
     !.command_queue = <<>>]

\* the queue is returned and left as it is
\* the queue is cleared without its commands being handed out
DrainReturnsNothing(eng) == [commands |-> <<>>, engine |-> [eng EXCEPT !.command_queue = <<>>]]

DrainKeepsQueue(eng) == [commands |-> eng.command_queue, engine |-> eng]

\* drain_commands: [commands, engine]
drain_commands(eng) ==
  [commands |-> eng.command_queue,
   engine |-> [eng EXCEPT !.command_queue = <<>>]]

\* ------------------------------------------------------------------------
\* Requests the clients can send
\* ------------------------------------------------------------------------
GoodSpec ==
  [parse_ok |-> TRUE,
   models |-> << [id |-> "chamber", type |-> "thermal_mass",
                  thermal_mass |-> 1, heat_transfer_coeff |-> 1,
                  initial_temp |-> 0, temp_signal |-> "t",
                  power_signal |-> "a", ambient_signal |-> "amb"] >>,
   edges |-> << [source_path |-> "a", target_path |-> "b",
                 transform |-> [type |-> "linear", scale |-> 1,
                                offset |-> 0]] >>,
   rules |-> << [id |-> "r1",
                 condition |-> [syntax_ok |-> TRUE, signal_path |-> "b",
                                op |-> ">", rhs |-> 0],
                 actions |-> << [device |-> "heater", function |-> "shutdown",
                                 args |-> <<>>],
                                [device |-> "pump", function |-> "stop",
                                 args |-> <<>>],
                                [device |-> "heater", function |-> "alarm",
                                 args |-> <<>>] >>] >>]

\* two linear edges in a loop: compile throws in detect_cycles
CycleSpec ==
  [parse_ok |-> TRUE,
   models |-> <<>>,
   edges |-> << [source_path |-> "a", target_path |-> "b",
                 transform |-> [type |-> "linear", scale |-> 1,
                                offset |-> 0]],
                [source_path |-> "b", target_path |-> "a",
                 transform |-> [type |-> "linear", scale |-> 1,
                                offset |-> 0]] >>,
   rules |-> <<>>]

\* content the loader rejects (load_json_string throws)
BadContent == [parse_ok |-> FALSE, models |-> <<>>, edges |-> <<>>,
               rules |-> <<>>]

Contents == {GoodSpec, CycleSpec, BadContent}

\* a default-constructed GraphSpec
EmptyGraphSpec == [parse_ok |-> TRUE, models |-> <<>>, edges |-> <<>>,
                   rules |-> <<>>]

\* a model whose output feeds a linear edge, a delay edge on the input, and
\* rules on the model output and on the edge target; ids: t = 0, a = 1,
\* amb = 2, c = 3, d = 4
ChainSpec ==
  [parse_ok |-> TRUE,
   models |-> << [id |-> "chamber", type |-> "thermal_mass",
                  thermal_mass |-> 1, heat_transfer_coeff |-> 1,
                  initial_temp |-> 0, temp_signal |-> "t",
                  power_signal |-> "a", ambient_signal |-> "amb"] >>,
   edges |-> << [source_path |-> "t", target_path |-> "c",
                 transform |-> [type |-> "linear", scale |-> 2,
                                offset |-> 1]],
                [source_path |-> "a", target_path |-> "d",
                 transform |-> [type |-> "delay", delay_sec |-> 1]] >>,
   rules |-> << [id |-> "r1",
                 condition |-> [syntax_ok |-> TRUE, signal_path |-> "c",
                                op |-> ">", rhs |-> 1],
                 actions |-> << [device |-> "heater", function |-> "shutdown",
                                 args |-> <<>>],
                                [device |-> "pump", function |-> "stop",
                                 args |-> <<>>] >>],
                [id |-> "r2",
                 condition |-> [syntax_ok |-> TRUE, signal_path |-> "t",
                                op |-> ">=", rhs |-> 2],
                 actions |-> << [device |-> "heater", function |-> "alarm",
                                 args |-> <<>>] >>] >>]

\* the same models and edges with another rule
FanSpec ==
  [ChainSpec EXCEPT
     !.rules = << [id |-> "r3",
                   condition |-> [syntax_ok |-> TRUE, signal_path |-> "t",
                                  op |-> ">", rhs |-> 0],
                   actions |-> << [device |-> "fan", function |-> "start",
                                   args |-> <<>>] >>] >>]

EngineContents == {ChainSpec, FanSpec}
Timesteps == {0, 1, 3}
InputValues == {1, 2}

Paths == {"a", "b", "t", "zz"}
AllPaths == <<"a", "b", "t", "zz">>
Values == {1}
Units == {"", "V"}
\* the input a is sent with and without a unit, the other paths with V
SignalUpdate ==
  {u \in [path : Paths, value : Values, unit : Units] :
     u.path # "a" => u.unit = "V"}
Batches == UNION {[1..n -> SignalUpdate] : n \in 0..MaxBatch}

SessionIds == 1..MaxSessions
UnknownSessionId == 0      \* a session id that was never issued
EmptySessionId == -1       \* the empty string as session id

\* ------------------------------------------------------------------------
\* Coordinator state (FluxGraphServiceImpl)
\* ------------------------------------------------------------------------
VARIABLES
  engine_, store_, signal_ns_, func_ns_,
  tick_generation_,
  last_completed_generation_, last_completed_sim_time_,
  last_completed_commands_,
  loaded_, current_config_hash_, sim_time_,
  protected_write_signals_, physics_owned_signals_,
  sessions_,     \* session id -> [provider_id, device_ids, stale,
                 \*                last_tick_generation]; stale stands for
                 \*                now - last_update > session_timeout_
  calls,         \* session id -> the UpdateSignals call of that provider:
                 \*   [pc, current_generation]
  last_op        \* history: the handler step just taken and its response

vars == <<engine_, store_, signal_ns_, func_ns_, tick_generation_,
          last_completed_generation_, last_completed_sim_time_,
          last_completed_commands_, loaded_, current_config_hash_,
          sim_time_, protected_write_signals_, physics_owned_signals_,
          sessions_, calls, last_op>>

IdleCall == [pc |-> "idle", current_generation |-> 0]

NoResult ==
  [op |-> "Init", session_id |-> 0, status |-> "OK", error |-> "",
   tick_occurred |-> FALSE, sim_time_sec |-> 0, commands |-> <<>>,
   generation |-> 0, submitted |-> FALSE, tick_invoked |-> FALSE,
   success |-> FALSE, config_changed |-> FALSE, config_hash |-> "",
   signals |-> <<>>, evicted |-> {},
   \* calls on the engine and the store, and what they are measured against
   ok |-> FALSE, dt |-> 0, drained |-> <<>>, emitted |-> <<>>,
   before |-> EmptyStore, content |-> EmptyGraphSpec, queued |-> <<>>,
   trace |-> <<>>, replaying |-> FALSE,
   \* the arguments of a call on the store, and the declared units a clear
   \* kept that no declare_unit has replaced since
   id |-> 0, value |-> 0, unit |-> "", kept_units |-> <<>>,
   \* the maps of the namespaces, and the arguments of a call on them
   tables |-> [signal |-> EmptyTable, device |-> EmptyTable,
               function |-> EmptyTable],
   kind |-> "", name |-> "",
   \* a transform driven directly, with the inputs and outputs of its calls
   transform |-> [type |-> "delay", scale |-> 0, offset |-> 0,
                  delay_sec |-> 0, buffer |-> <<>>],
   inputs |-> <<>>, outputs |-> <<>>,
   \* the clone of the transform, with the calls made on it and their
   \* outputs; inputs and outputs then hold the calls on the original since
   \* the clone was taken
   copy |-> <<>>, copy_inputs |-> <<>>, copy_outputs |-> <<>>,
   cloned |-> FALSE, applied |-> 0,
   \* the expected_dt of a compile call
   expected_dt |-> 0,
   \* the second engine instance of the determinism runs
   twin |-> [engine |-> EmptyEngine, store |-> EmptyStore,
             signal_ns |-> <<>>, func_ns |-> EmptyFuncNs,
             ok |-> FALSE, drained |-> <<>>]]

Result(op, sid, status, error) ==
  [NoResult EXCEPT !.op = op, !.session_id = sid, !.status = status,
                   !.error = error]

Init ==
  /\ engine_ = EmptyEngine
  /\ store_ = EmptyStore
  /\ signal_ns_ = <<>>
  /\ func_ns_ = EmptyFuncNs
  /\ tick_generation_ = 0
  /\ last_completed_generation_ = 0
  /\ last_completed_sim_time_ = 0
  /\ last_completed_commands_ = <<>>
  /\ loaded_ = FALSE
  /\ current_config_hash_ = ""
  /\ sim_time_ = 0
  /\ protected_write_signals_ = {}
  /\ physics_owned_signals_ = {}
  /\ sessions_ = <<>>
  /\ calls = [s \in SessionIds |-> IdleCall]
  /\ last_op = NoResult

Restrict(f, S) == [x \in S |-> f[x]]

\* ------------------------------------------------------------------------
\* Helper methods of the service
\* ------------------------------------------------------------------------
\* no session is evicted
PruneNothing(sessions, active_session_id) == sessions

\* the calling session is recorded as having submitted for generation 0
PruneMarkingCaller(sessions, active_session_id) == [s \in {t \in DOMAIN sessions : t = active_session_id \/ ~sessions[t].stale} |-> IF s = active_session_id THEN [sessions[s] EXCEPT !.last_tick_generation = 0] ELSE sessions[s]]

prune_stale_sessions_locked(sessions, active_session_id) ==
  Restrict(sessions, {s \in DOMAIN sessions :
                        s = active_session_id \/ ~sessions[s].stale})

\* the sessions named in the "Evicting stale provider session" warnings
Evicted(sessions, pruned) == DOMAIN sessions \ DOMAIN pruned

\* the inner loop over the owned devices, with its break
RECURSIVE OwnsDevice(_, _)
OwnsDevice(device_ids, device_name) ==
  IF device_ids = <<>> THEN FALSE
  ELSE IF device_name = Head(device_ids) THEN TRUE
  ELSE OwnsDevice(Tail(device_ids), device_name)

RECURSIVE FilterLoop(_, _, _)
FilterLoop(all_commands, device_ids, fns) ==
  IF all_commands = <<>> THEN <<>>
  ELSE
    LET cmd == Head(all_commands)
        device_name == lookup(fns.devices, cmd.device)
    IN (IF OwnsDevice(device_ids, device_name) THEN <<cmd>> ELSE <<>>)
         \o FilterLoop(Tail(all_commands), device_ids, fns)

\* the snapshot is handed out unfiltered
AllCommandsForSession(sessions, fns, session_id, all_commands) ==
  all_commands

filter_commands_for_session_locked(sessions, fns, session_id, all_commands) ==
  IF session_id \notin DOMAIN sessions THEN <<>>
  ELSE IF sessions[session_id].device_ids = <<>> THEN <<>>
  ELSE FilterLoop(all_commands, sessions[session_id].device_ids, fns)

convert_command(fns, cmd) ==
  [device |-> lookup(fns.devices, cmd.device),
   function |-> lookup(fns.functions, cmd.function),
   args |-> cmd.args]

\* the response fields set from the completed-tick snapshot
populate_tick_response_for_session_locked(sessions, fns, session_id, completed_sim_time, completed_commands, res) ==
  LET provider_commands ==
        filter_commands_for_session_locked(sessions, fns, session_id,
                                           completed_commands)
  IN [res EXCEPT
        !.tick_occurred = TRUE,
        !.sim_time_sec = completed_sim_time,
        !.commands = [i \in DOMAIN provider_commands |->
                        convert_command(fns, provider_commands[i])]]

\* ------------------------------------------------------------------------
\* LoadConfig
\* ------------------------------------------------------------------------
ProtectedOf(spec, ns) ==
  {resolve(ns, spec.edges[i].target_path) : i \in DOMAIN spec.edges}
    \cup {resolve(ns, spec.models[i].temp_signal) :
            i \in {j \in DOMAIN spec.models :
                     spec.models[j].type = "thermal_mass"}}

PhysicsOwnedOf(spec, ns) ==
  {resolve(ns, spec.models[i].temp_signal) :
     i \in {j \in DOMAIN spec.models : spec.models[j].type = "thermal_mass"}}

\* the early return is dropped
HashNeverMatches(config_hash, current_config_hash) == FALSE

\* the check for a configuration that is already loaded
HashMatches(config_hash, current_config_hash) ==
  config_hash # "" /\ config_hash = current_config_hash

\* compiler.compile(spec, signal_ns_, func_ns_, dt_) on the namespaces that
\* were just cleared
Compiled == [content \in Contents |-> compile(content, <<>>, EmptyFuncNs, dt_)]

\* the sessions survive the reload
KeepSessions(sessions) == sessions

\* sessions_.clear()
clear_sessions(sessions) == <<>>

LoadConfig(content, format, config_hash) ==
  LET c == Compiled[content]
      res(status, error) ==
        [Result("LoadConfig", 0, status, error) EXCEPT
           !.config_hash = config_hash]
  IN
  IF HashMatches(config_hash, current_config_hash_)
    THEN \* no-op (matching hash)
      /\ last_op' = [res("OK", "") EXCEPT !.success = TRUE]
      /\ UNCHANGED <<engine_, store_, signal_ns_, func_ns_, tick_generation_,
                     last_completed_generation_, last_completed_sim_time_,
                     last_completed_commands_, loaded_, current_config_hash_,
                     sim_time_, protected_write_signals_,
                     physics_owned_signals_, sessions_, calls>>
  ELSE IF format # "json" \/ ~content.parse_ok
    THEN \* unknown format, or the loader throws before anything is cleared
      /\ last_op' = res("INVALID_ARGUMENT",
                        IF format # "json" THEN "UnknownFormat"
                                           ELSE "ParseError")
      /\ UNCHANGED <<engine_, store_, signal_ns_, func_ns_, tick_generation_,
                     last_completed_generation_, last_completed_sim_time_,
                     last_completed_commands_, loaded_, current_config_hash_,
                     sim_time_, protected_write_signals_,
                     physics_owned_signals_, sessions_, calls>>
  ELSE IF ~c.ok
    THEN \* compile throws after both namespaces were cleared
      /\ signal_ns_' = c.signal_ns
      /\ func_ns_' = c.func_ns
      /\ last_op' = res("INVALID_ARGUMENT", "CompileError")
      /\ UNCHANGED <<engine_, store_, tick_generation_,
                     last_completed_generation_, last_completed_sim_time_,
                     last_completed_commands_, loaded_, current_config_hash_,
                     sim_time_, protected_write_signals_,
                     physics_owned_signals_, sessions_, calls>>
  ELSE
      /\ signal_ns_' = c.signal_ns
      /\ func_ns_' = c.func_ns
      /\ engine_' = EngineLoad(engine_, c.program)
      /\ physics_owned_signals_' =
           PhysicsOwnedOf(content, c.signal_ns) \ {INVALID_SIGNAL}
      /\ protected_write_signals_' =
           ProtectedOf(content, c.signal_ns) \ {INVALID_SIGNAL}
      /\ store_' = [EmptyStore EXCEPT
                      !.physics_driven = physics_owned_signals_']
      /\ sim_time_' = 0
      /\ tick_generation_' = 0
      /\ last_completed_generation_' = 0
      /\ last_completed_sim_time_' = 0
      /\ last_completed_commands_' = <<>>
      /\ sessions_' = clear_sessions(sessions_)
      /\ current_config_hash_' = config_hash
      /\ loaded_' = TRUE
      /\ last_op' = [res("OK", "") EXCEPT !.success = TRUE,
                                          !.config_changed = TRUE]
      /\ UNCHANGED calls

\* ------------------------------------------------------------------------
\* RegisterProvider / UnregisterProvider
\* ------------------------------------------------------------------------
\* the device ownership check is left out
ConflictsOnProviderOnly(session, provider_id, device_ids) ==
  session.provider_id = provider_id

\* the two checks of the loop over the existing sessions
ConflictsWith(session, provider_id, device_ids) ==
  \/ session.provider_id = provider_id
  \/ \E i \in DOMAIN device_ids : device_ids[i] \in Range(session.device_ids)

\* sessions_ is a std::map keyed by session id, and a session id starts with
\* the provider id: the loop visits the sessions in the order of their
\* provider ids
ProviderOrder == <<"", "p1", "p2">>
ProviderRank(provider_id) ==
  CHOOSE i \in DOMAIN ProviderOrder : ProviderOrder[i] = provider_id
FirstInMapOrder(sessions, S) ==
  CHOOSE s \in S :
    \A t \in S : ProviderRank(sessions[s].provider_id)
                    <= ProviderRank(sessions[t].provider_id)

generate_session_id(sessions) ==
  Min({s \in SessionIds : s \notin DOMAIN sessions /\ calls[s].pc = "idle"})

RegisterProvider(provider_id, device_ids) ==
  LET res(status, error) == Result("RegisterProvider", 0, status, error)
      pruned == prune_stale_sessions_locked(sessions_, EmptySessionId)
      conflicting == {s \in DOMAIN pruned :
                        ConflictsWith(pruned[s], provider_id, device_ids)}
      first == FirstInMapOrder(pruned, conflicting)
      session_id == generate_session_id(pruned)
      ev(r) == [r EXCEPT !.evicted = Evicted(sessions_, pruned)]
  IN
  IF ~loaded_
    THEN /\ last_op' = res("FAILED_PRECONDITION", "NotLoaded")
         /\ UNCHANGED <<engine_, store_, signal_ns_, func_ns_,
                        tick_generation_, last_completed_generation_,
                        last_completed_sim_time_, last_completed_commands_,
                        loaded_, current_config_hash_, sim_time_,
                        protected_write_signals_, physics_owned_signals_,
                        sessions_, calls>>
  ELSE IF provider_id = ""
    THEN /\ last_op' = res("INVALID_ARGUMENT", "InvalidArgument")
         /\ UNCHANGED <<engine_, store_, signal_ns_, func_ns_,
                        tick_generation_, last_completed_generation_,
                        last_completed_sim_time_, last_completed_commands_,
                        loaded_, current_config_hash_, sim_time_,
                        protected_write_signals_, physics_owned_signals_,
                        sessions_, calls>>
  ELSE
    /\ IF conflicting # {}
         THEN /\ sessions_' = pruned
              /\ last_op' = ev(res("ALREADY_EXISTS",
                                   IF pruned[first].provider_id = provider_id
                                     THEN "AlreadyExists"
                                     ELSE "OwnershipConflict"))
         ELSE /\ \E s \in SessionIds :
                   s \notin DOMAIN pruned /\ calls[s].pc = "idle"
              /\ sessions_' =
                   (session_id :> [provider_id |-> provider_id,
                                   device_ids |-> device_ids,
                                   stale |-> FALSE,
                                   last_tick_generation |-> nullopt])
                     @@ pruned
              /\ last_op' = [ev(res("OK", "")) EXCEPT
                                !.success = TRUE, !.session_id = session_id]
    /\ UNCHANGED <<engine_, store_, signal_ns_, func_ns_, tick_generation_,
                   last_completed_generation_, last_completed_sim_time_,
                   last_completed_commands_, loaded_, current_config_hash_,
                   sim_time_, protected_write_signals_,
                   physics_owned_signals_, calls>>

\* every session is dropped with the named one
EraseAll(sessions, session_id) == <<>>

\* sessions_.erase(it)
erase(sessions, session_id) ==
  Restrict(sessions, DOMAIN sessions \ {session_id})

UnregisterProvider(session_id) ==
  LET res(status, error) == Result("UnregisterProvider", 0, status, error)
  IN
  IF session_id = EmptySessionId \/ session_id \notin DOMAIN sessions_
    THEN /\ last_op' = IF session_id = EmptySessionId
                         THEN res("INVALID_ARGUMENT", "InvalidArgument")
                         ELSE res("UNAUTHENTICATED", "UnknownSession")
         /\ UNCHANGED <<engine_, store_, signal_ns_, func_ns_,
                        tick_generation_, last_completed_generation_,
                        last_completed_sim_time_, last_completed_commands_,
                        loaded_, current_config_hash_, sim_time_,
                        protected_write_signals_, physics_owned_signals_,
                        sessions_, calls>>
  ELSE
    /\ sessions_' = erase(sessions_, session_id)
    /\ last_op' = [res("OK", "") EXCEPT !.success = TRUE,
                                        !.session_id = session_id]
    /\ UNCHANGED <<engine_, store_, signal_ns_, func_ns_, tick_generation_,
                   last_completed_generation_, last_completed_sim_time_,
                   last_completed_commands_, loaded_, current_config_hash_,
                   sim_time_, protected_write_signals_,
                   physics_owned_signals_, calls>>

\* ------------------------------------------------------------------------
\* UpdateSignals
\* ------------------------------------------------------------------------
\* the write loop: [error, store]; it returns at the first offending entry
\* with the store as the entries before it left it
RECURSIVE WriteSignals(_, _, _, _)
WriteSignals(signals, ns, protected, st) ==
  IF signals = <<>> THEN [error |-> "", store |-> st]
  ELSE
    LET sig == Head(signals)
        id == resolve(ns, sig.path)
        w == StoreWrite(st, id, sig.value, sig.unit)
    IN IF id = INVALID_SIGNAL THEN [error |-> "UnknownSignal", store |-> st]
       ELSE IF id \in protected
         THEN [error |-> "PermissionDenied", store |-> st]
       ELSE IF ~w.ok THEN [error |-> "UnitMismatch", store |-> w.store]
       ELSE WriteSignals(Tail(signals), ns, protected, w.store)

\* the sessions have to be ahead of the current generation
AllAhead(sessions, current_generation) == DOMAIN sessions # {} /\ \A s \in DOMAIN sessions : sessions[s].last_tick_generation > current_generation

\* one session that has submitted is enough for the tick
AnyReady(sessions, current_generation) == \E s \in DOMAIN sessions : sessions[s].last_tick_generation # nullopt /\ sessions[s].last_tick_generation >= current_generation

\* all_ready: there is a session, and every session has submitted for the
\* current generation
AllReady(sessions, current_generation) ==
  /\ DOMAIN sessions # {}
  /\ \A s \in DOMAIN sessions :
       /\ sessions[s].last_tick_generation # nullopt
       /\ sessions[s].last_tick_generation >= current_generation

StatusOf(error) ==
  CASE error = "UnknownSignal" -> "INVALID_ARGUMENT"
    [] error = "PermissionDenied" -> "PERMISSION_DENIED"
    [] OTHER -> "UNKNOWN"    \* an exception that leaves the handler

\* the generation is advanced and the simulation time is not
CompleteTickKeepsTime(generation, sim_time) == [tick_generation |-> generation + 1, sim_time |-> sim_time]

\* the generation is advanced twice
CompleteTickTwice(generation, sim_time) ==
  [tick_generation |-> generation + 2, sim_time |-> sim_time + dt_]

\* what the completer commits after engine_.tick returned
CompleteTick(generation, sim_time) ==
  [tick_generation |-> generation + 1, sim_time |-> sim_time + dt_]

\* from the entry of the handler to its return or to the wait on tick_cv_
UpdateSignals(session_id, signals) ==
  LET res(status, error) == Result("UpdateSignals", 0, status, error)
      touched == [sessions_ EXCEPT ![session_id].stale = FALSE]
      pruned == prune_stale_sessions_locked(touched, session_id)
      ses(r) == [r EXCEPT !.session_id = session_id,
                          !.evicted = Evicted(touched, pruned)]
      current_generation == tick_generation_
      w == WriteSignals(signals, signal_ns_, protected_write_signals_, store_)
      marked == [pruned EXCEPT
                   ![session_id].last_tick_generation = current_generation]
      sub(r) == [r EXCEPT !.generation = current_generation,
                          !.submitted = TRUE]
  IN
  /\ tick_generation_ < MaxGen
  /\ session_id \in SessionIds => calls[session_id].pc = "idle"
  /\ IF ~loaded_ \/ session_id \notin DOMAIN sessions_
       THEN
         /\ last_op' = IF ~loaded_
                         THEN res("FAILED_PRECONDITION", "NotLoaded")
                         ELSE res("UNAUTHENTICATED", "UnknownSession")
         /\ UNCHANGED <<engine_, store_, tick_generation_, sim_time_,
                        last_completed_generation_, last_completed_sim_time_,
                        last_completed_commands_, sessions_, calls>>
     ELSE IF w.error # ""
       THEN \* rejected entry, or store_.write threw
         /\ store_' = w.store
         /\ sessions_' = pruned
         /\ last_op' = ses(res(StatusOf(w.error), w.error))
         /\ UNCHANGED <<engine_, tick_generation_, sim_time_,
                        last_completed_generation_, last_completed_sim_time_,
                        last_completed_commands_, calls>>
     ELSE IF AllReady(marked, current_generation)
       THEN \* last provider to arrive: engine_.tick(dt_, store_)
       \E t \in {EngineTick(engine_, dt_, w.store)} :
       IF ~t.ok
       THEN \* engine_.tick threw: nothing after it runs
         /\ engine_' = t.engine
         /\ store_' = t.store
         /\ sessions_' = marked
         /\ last_op' = [ses(sub(res("UNKNOWN", "TickFailed"))) EXCEPT
                          !.tick_invoked = TRUE]
         /\ UNCHANGED <<tick_generation_, sim_time_,
                        last_completed_generation_, last_completed_sim_time_,
                        last_completed_commands_, calls>>
       ELSE \* one tick, then the snapshot
         /\ store_' = t.store
         /\ sim_time_' = CompleteTick(tick_generation_, sim_time_).sim_time
         /\ tick_generation_' =
              CompleteTick(tick_generation_, sim_time_).tick_generation
         /\ last_completed_generation_' = tick_generation_'
         /\ last_completed_sim_time_' = sim_time_'
         /\ last_completed_commands_' = drain_commands(t.engine).commands
         /\ engine_' = drain_commands(t.engine).engine
         /\ sessions_' = marked
         /\ UNCHANGED calls
         /\ last_op' =
              populate_tick_response_for_session_locked(
                marked, func_ns_, session_id, last_completed_sim_time_',
                last_completed_commands_',
                [ses(sub(res("OK", ""))) EXCEPT !.tick_invoked = TRUE])
     ELSE \* early provider: wait until the current generation completes
         /\ store_' = w.store
         /\ sessions_' = marked
         /\ calls' = [calls EXCEPT
                        ![session_id] = [pc |-> "waiting",
                                         current_generation |->
                                           current_generation]]
         /\ last_op' = ses(sub(res("WAITING", "")))
         /\ UNCHANGED <<engine_, tick_generation_, sim_time_,
                        last_completed_generation_, last_completed_sim_time_,
                        last_completed_commands_>>
  /\ UNCHANGED <<signal_ns_, func_ns_, loaded_, current_config_hash_,
                 protected_write_signals_, physics_owned_signals_>>

\* the wait is taken to have seen the generation advance whatever it is
TickedAlways(tick_generation, current_generation) == TRUE

\* the predicate tick_cv_.wait_for returns at the end of the wait
ticked(tick_generation, current_generation) ==
  tick_generation > current_generation

\* wait_for returned true: tick_generation_ > current_generation
WaitTicked(session_id) ==
  LET call == calls[session_id]
      res == [Result("WaitReturn", session_id, "OK", "") EXCEPT
                !.generation = call.current_generation,
                !.submitted = TRUE]
  IN
  /\ call.pc = "waiting"
  /\ ticked(tick_generation_, call.current_generation)
  /\ calls' = [calls EXCEPT ![session_id] = IdleCall]
  /\ last_op' = populate_tick_response_for_session_locked(
                  sessions_, func_ns_, session_id, last_completed_sim_time_,
                  last_completed_commands_, res)
  /\ UNCHANGED <<engine_, store_, signal_ns_, func_ns_, tick_generation_,
                 last_completed_generation_, last_completed_sim_time_,
                 last_completed_commands_, loaded_, current_config_hash_,
                 sim_time_, protected_write_signals_, physics_owned_signals_,
                 sessions_>>

\* wait_for returned false: the 2000 ms passed without the generation
\* advancing
WaitTimeout(session_id) ==
  LET call == calls[session_id]
  IN
  /\ call.pc = "waiting"
  /\ ~ticked(tick_generation_, call.current_generation)
  /\ calls' = [calls EXCEPT ![session_id] = IdleCall]
  /\ last_op' = [Result("WaitReturn", session_id, "OK", "") EXCEPT
                   !.generation = call.current_generation,
                   !.submitted = TRUE,
                   !.tick_occurred = FALSE,
                   !.sim_time_sec = sim_time_]
  /\ UNCHANGED <<engine_, store_, signal_ns_, func_ns_, tick_generation_,
                 last_completed_generation_, last_completed_sim_time_,
                 last_completed_commands_, loaded_, current_config_hash_,
                 sim_time_, protected_write_signals_, physics_owned_signals_,
                 sessions_>>

\* ------------------------------------------------------------------------
\* ReadSignals / Reset
\* ------------------------------------------------------------------------
RECURSIVE ReadLoop(_, _, _)
ReadLoop(paths, ns, st) ==
  IF paths = <<>> THEN <<>>
  ELSE
    LET id == resolve(ns, Head(paths))
    IN (IF id = INVALID_SIGNAL THEN <<>>
        ELSE << [path |-> Head(paths),
                 value |-> StoreRead(st, id).value,
                 unit |-> StoreRead(st, id).unit,
                 physics_driven |-> id \in st.physics_driven] >>)
         \o ReadLoop(Tail(paths), ns, st)

ReadSignals(paths) ==
  /\ last_op' = IF ~loaded_
                  THEN Result("ReadSignals", 0, "FAILED_PRECONDITION",
                              "NotLoaded")
                  ELSE [Result("ReadSignals", 0, "OK", "") EXCEPT
                          !.signals = ReadLoop(paths, signal_ns_, store_)]
  /\ UNCHANGED <<engine_, store_, signal_ns_, func_ns_, tick_generation_,
                 last_completed_generation_, last_completed_sim_time_,
                 last_completed_commands_, loaded_, current_config_hash_,
                 sim_time_, protected_write_signals_, physics_owned_signals_,
                 sessions_, calls>>

\* the submissions made before the Reset are kept
KeepSubmissions(sessions) == sessions

\* every provider has to submit generation 0 again
ForgetSubmissions(sessions) ==
  [s \in DOMAIN sessions |->
     [sessions[s] EXCEPT !.last_tick_generation = nullopt]]

Reset ==
  IF ~loaded_
    THEN /\ last_op' = Result("Reset", 0, "FAILED_PRECONDITION", "NotLoaded")
         /\ UNCHANGED <<engine_, store_, signal_ns_, func_ns_,
                        tick_generation_, last_completed_generation_,
                        last_completed_sim_time_, last_completed_commands_,
                        loaded_, current_config_hash_, sim_time_,
                        protected_write_signals_, physics_owned_signals_,
                        sessions_, calls>>
  ELSE
    /\ engine_' = EngineReset(engine_)
    /\ store_' = [StoreClear(store_) EXCEPT
                    !.physics_driven = physics_owned_signals_]
    /\ sim_time_' = 0
    /\ tick_generation_' = 0
    /\ last_completed_generation_' = 0
    /\ last_completed_sim_time_' = 0
    /\ last_completed_commands_' = <<>>
    /\ sessions_' = ForgetSubmissions(sessions_)
    /\ last_op' = [Result("Reset", 0, "OK", "") EXCEPT !.success = TRUE]
    /\ UNCHANGED <<signal_ns_, func_ns_, loaded_, current_config_hash_,
                   protected_write_signals_, physics_owned_signals_, calls>>

\* ------------------------------------------------------------------------
\* Time: more than session_timeout_ passes without any call
\* ------------------------------------------------------------------------
TimePasses ==
  /\ \E s \in DOMAIN sessions_ : ~sessions_[s].stale
  /\ sessions_' = [s \in DOMAIN sessions_ |->
                     [sessions_[s] EXCEPT !.stale = TRUE]]
  /\ last_op' = Result("TimePasses", 0, "OK", "")
  /\ UNCHANGED <<engine_, store_, signal_ns_, func_ns_, tick_generation_,
                 last_completed_generation_, last_completed_sim_time_,
                 last_completed_commands_, loaded_, current_config_hash_,
                 sim_time_, protected_write_signals_, physics_owned_signals_,
                 calls>>

\* The handlers, with their requests drawn from the given sets.
Serve(loads, registrations, batches) ==
  \/ \E l \in loads : LoadConfig(l[1], l[2], l[3])
  \/ \E r \in registrations : RegisterProvider(r[1], r[2])
  \/ \E s \in SessionIds \cup {UnknownSessionId, EmptySessionId} :
       UnregisterProvider(s)
  \/ \E s \in SessionIds \cup {UnknownSessionId}, b \in batches :
       UpdateSignals(s, b)
  \/ \E s \in SessionIds : WaitTicked(s)
  \/ \E s \in SessionIds : WaitTimeout(s)
  \/ ReadSignals(AllPaths)
  \/ Reset
  \/ TimePasses

\* Every kind of configuration request; a provider that owns the heater and
\* one that owns nothing; batches that are empty, write the input a, or have a
\* rejected entry behind that write.
LoadRequests ==
  {<<GoodSpec, "json", "">>, <<GoodSpec, "json", "h1">>,
   <<CycleSpec, "json", "">>, <<BadContent, "json", "">>,
   <<GoodSpec, "xml", "">>}
Registrations == {<<"", <<>>>>, <<"p1", <<"heater">>>>, <<"p2", <<>>>>}
InputBatches ==
  {b \in Batches :
     \/ b = <<>>
     \/ /\ b[1].path = "a" /\ b[1].unit = "V"
        /\ Len(b) = 2 => b[2].path \in {"b", "zz"}}
ShortBatches == {b \in Batches : Len(b) <= 1}

Next == Serve(LoadRequests, Registrations, InputBatches)

Spec == Init /\ [][Next]_vars

\* Two providers that compete for the devices; every load replaces the
\* configuration.
Reloads == {GoodSpec, BadContent} \X {"json"} \X {""}
TwoProviders ==
  {<<"", <<>>>>, <<"p1", <<>>>>, <<"p1", <<"heater">>>>,
   <<"p2", <<"heater">>>>, <<"p2", <<"pump">>>>}

NextSessions == Serve(Reloads, TwoProviders, ShortBatches)

SpecSessions == Init /\ [][NextSessions]_vars

\* ------------------------------------------------------------------------
\* The engine driven directly: a client that compiles a GraphSpec, loads it
\* and then writes inputs, ticks, drains and resets, as the engine tests do.
\* The coordinator's fields are not involved.
\* ------------------------------------------------------------------------
CoordinatorVars == <<tick_generation_, last_completed_generation_,
                     last_completed_sim_time_, last_completed_commands_,
                     loaded_, current_config_hash_, sim_time_,
                     protected_write_signals_, physics_owned_signals_,
                     sessions_, calls>>

\* compile(spec, signal_ns, func_ns) of a client with fresh namespaces; the
\* default expected_dt skips the stability validation
CompiledForEngine ==
  [content \in EngineContents |-> compile(content, <<>>, EmptyFuncNs, 0)]

\* The commands the rules of a GraphSpec ask for on the given store: rules in
\* spec order, one command per action of each rule whose condition holds.
RECURSIVE Expected(_, _, _, _)
Expected(rules, ns, fns, st) ==
  IF rules = <<>> THEN <<>>
  ELSE
    LET r == Head(rules)
        v == StoreRead(st, resolve(ns, r.condition.signal_path)).value
        holds == CASE r.condition.op = ">" -> v > r.condition.rhs
                   [] r.condition.op = ">=" -> v >= r.condition.rhs
                   [] r.condition.op = "<" -> v < r.condition.rhs
                   [] r.condition.op = "<=" -> v <= r.condition.rhs
                   [] r.condition.op = "==" -> v = r.condition.rhs
                   [] OTHER -> v # r.condition.rhs
        commands == [i \in DOMAIN r.actions |->
                       [device |-> resolve(fns.devices, r.actions[i].device),
                        function |->
                          resolve(fns.functions, r.actions[i].function),
                        args |-> r.actions[i].args]]
    IN (IF holds THEN commands ELSE <<>>)
         \o Expected(Tail(rules), ns, fns, st)

\* the commands of the history that no drain has returned yet
Undrained(e) == ~e.drained

\* the record of an engine call; the histories are carried over, the
\* commands a drain has returned leave the history with the next call
EngineResult(op, ok) ==
  [NoResult EXCEPT !.op = op, !.ok = ok, !.content = last_op.content,
                   !.queued = SelectSeq(last_op.queued, Undrained),
                   !.trace = last_op.trace,
                   !.replaying = last_op.replaying]

Call(op, dt, path, value, unit) ==
  [op |-> op, dt |-> dt, path |-> path, value |-> value, unit |-> unit]

\* the record of a call made after a reset: the call joins the trace while
\* the trace has room, and the comparison ends when it has none
Traced(res, call) ==
  IF ~res.replaying THEN res
  ELSE IF Len(res.trace) < MaxTrace
    THEN [res EXCEPT !.trace = Append(@, call)]
  ELSE [res EXCEPT !.trace = <<>>, !.replaying = FALSE]

\* engine.load(compiler.compile(spec, signal_ns, func_ns))
Load(content) ==
  LET c == CompiledForEngine[content]
  IN /\ engine_' = EngineLoad(engine_, c.program)
     /\ signal_ns_' = c.signal_ns
     /\ func_ns_' = c.func_ns
     /\ last_op' = [EngineResult("load", TRUE) EXCEPT
                      !.content = content,
                      !.queued = [i \in DOMAIN @ |->
                                    [@[i] EXCEPT !.stale = TRUE]],
                      !.trace = <<>>,
                      !.replaying = FALSE]
     /\ UNCHANGED store_
     /\ UNCHANGED CoordinatorVars

\* store.write(signal_ns.resolve(path), value, unit)
Write(path, value, unit) ==
  LET w == StoreWrite(store_, resolve(signal_ns_, path), value, unit)
  IN /\ store_' = w.store
     /\ last_op' = Traced(EngineResult("write", w.ok),
                          Call("write", 0, path, value, unit))
     /\ UNCHANGED <<engine_, signal_ns_, func_ns_>>
     /\ UNCHANGED CoordinatorVars

\* engine.tick(dt, store)
Tick(dt) ==
  LET t == EngineTick(engine_, dt, store_)
      n == Len(engine_.command_queue)
      expected == IF t.ok
                    THEN Expected(last_op.content.rules, signal_ns_, func_ns_,
                                  t.store)
                    ELSE <<>>
  IN /\ Len(SelectSeq(last_op.queued, Undrained)) < MaxQueue
     /\ engine_' = t.engine
     /\ store_' = t.store
     /\ last_op' = Traced([EngineResult("tick", t.ok) EXCEPT
                             !.dt = dt,
                             !.before = store_,
                             !.emitted = SubSeq(t.engine.command_queue, n + 1,
                                                Len(t.engine.command_queue)),
                             !.queued = @ \o [i \in DOMAIN expected |->
                                                [command |-> expected[i],
                                                 discarded |-> FALSE,
                                                 stale |-> FALSE,
                                                 drained |-> FALSE]]],
                          Call("tick", dt, "", 0, ""))
     /\ UNCHANGED <<signal_ns_, func_ns_>>
     /\ UNCHANGED CoordinatorVars

\* engine.drain_commands()
DrainCommands ==
  LET d == drain_commands(engine_)
  IN /\ engine_' = d.engine
     /\ last_op' = Traced([EngineResult("drain_commands", TRUE) EXCEPT
                             !.drained = d.commands,
                             !.queued = [i \in DOMAIN @ |->
                                           [@[i] EXCEPT !.drained = TRUE]]],
                          Call("drain_commands", 0, "", 0, ""))
     /\ UNCHANGED <<store_, signal_ns_, func_ns_>>
     /\ UNCHANGED CoordinatorVars

\* engine.reset(); store.clear()
ResetAndClear ==
  /\ engine_' = EngineReset(engine_)
  /\ store_' = StoreClear(store_)
  /\ last_op' = [EngineResult("reset", TRUE) EXCEPT
                   !.queued = [i \in DOMAIN @ |->
                                 [@[i] EXCEPT !.discarded = TRUE]],
                   !.trace = <<>>,
                   !.replaying = engine_.loaded]
  /\ UNCHANGED <<signal_ns_, func_ns_>>
  /\ UNCHANGED CoordinatorVars

\* a fresh Engine and SignalStore with the program of the GraphSpec loaded
FreshInstance(content) ==
  [engine |-> EngineLoad(EmptyEngine, CompiledForEngine[content].program),
   store |-> EmptyStore, ok |-> TRUE, drained |-> <<>>]

\* the calls of a trace made one after the other: [engine, store, ok,
\* drained], ok and drained being those of the last call
RECURSIVE Replay(_, _, _)
Replay(trace, ns, run) ==
  IF trace = <<>> THEN run
  ELSE
    LET e == Head(trace)
        w == StoreWrite(run.store, resolve(ns, e.path), e.value, e.unit)
        t == EngineTick(run.engine, e.dt, run.store)
        d == drain_commands(run.engine)
        after ==
          CASE e.op = "write" ->
                 [run EXCEPT !.store = w.store, !.ok = w.ok, !.drained = <<>>]
            [] e.op = "tick" ->
                 [engine |-> t.engine, store |-> t.store, ok |-> t.ok,
                  drained |-> <<>>]
            [] OTHER ->
                 [run EXCEPT !.engine = d.engine, !.ok = TRUE,
                             !.drained = d.commands]
    IN Replay(Tail(trace), ns, after)

NextEngine ==
  \/ \E content \in EngineContents : Load(content)
  \/ \E v \in InputValues, u \in Units : Write("a", v, u)
  \/ \E dt \in Timesteps : Tick(dt)
  \/ DrainCommands
  \/ ResetAndClear

SpecEngine == Init /\ [][NextEngine]_vars

\* ------------------------------------------------------------------------
\* Two engine instances run side by side, as the determinism test does: each
\* has its own namespaces, store and engine, both compile the same GraphSpec
\* and receive the same writes, ticks and drains. The namespaces of the
\* second instance already hold names when it compiles, so the two programs
\* number the signals, devices and functions differently.
\* ------------------------------------------------------------------------
TwinSpec ==
  [parse_ok |-> TRUE,
   models |-> << [id |-> "chamber", type |-> "thermal_mass",
                  thermal_mass |-> 1, heat_transfer_coeff |-> 1,
                  initial_temp |-> 0, temp_signal |-> "t",
                  power_signal |-> "a", ambient_signal |-> "amb"] >>,
   edges |-> << [source_path |-> "t", target_path |-> "c",
                 transform |-> [type |-> "linear", scale |-> 2,
                                offset |-> 1]],
                [source_path |-> "c", target_path |-> "e",
                 transform |-> [type |-> "linear", scale |-> 1,
                                offset |-> 1]],
                [source_path |-> "a", target_path |-> "f",
                 transform |-> [type |-> "linear", scale |-> 1,
                                offset |-> 0]],
                [source_path |-> "a", target_path |-> "d",
                 transform |-> [type |-> "delay", delay_sec |-> 1]] >>,
   rules |-> << [id |-> "r1",
                 condition |-> [syntax_ok |-> TRUE, signal_path |-> "e",
                                op |-> ">", rhs |-> 2],
                 actions |-> << [device |-> "heater", function |-> "shutdown",
                                 args |-> <<>>] >>],
                [id |-> "r2",
                 condition |-> [syntax_ok |-> TRUE, signal_path |-> "f",
                                op |-> ">=", rhs |-> 2],
                 actions |-> << [device |-> "pump", function |-> "stop",
                                 args |-> <<>>] >>] >>]

CompiledFirst == compile(TwinSpec, <<>>, EmptyFuncNs, 0)

\* the namespaces of the second instance hold names before it compiles
CompiledSecond ==
  compile(TwinSpec, <<"f", "e", "a", "c">>,
          [devices |-> <<"pump">>, functions |-> <<"stop", "shutdown">>], 0)

\* the store as a client reads it: value, unit and physics-driven flag by path
ByPath(st, ns) ==
  [p \in {"t", "a", "amb", "c", "e", "f", "d"} |->
     [signal |-> StoreRead(st, resolve(ns, p)),
      physics_driven |-> resolve(ns, p) \in st.physics_driven]]

\* drained commands as a client reads them: device and function by name
ByName(commands, fns) ==
  [i \in DOMAIN commands |->
     [device |-> lookup(fns.devices, commands[i].device),
      function |-> lookup(fns.functions, commands[i].function),
      args |-> commands[i].args]]

\* the edges of a loaded program by path
EdgePaths(eng, ns) ==
  [i \in DOMAIN eng.edges |->
     <<lookup(ns, eng.edges[i].source), lookup(ns, eng.edges[i].target)>>]

TwinResult(op, ok, twin) ==
  [NoResult EXCEPT !.op = op, !.ok = ok, !.content = TwinSpec, !.twin = twin]

\* both instances: engine.load(compiler.compile(spec, signal_ns, func_ns))
TwinLoad ==
  /\ ~engine_.loaded
  /\ engine_' = EngineLoad(engine_, CompiledFirst.program)
  /\ signal_ns_' = CompiledFirst.signal_ns
  /\ func_ns_' = CompiledFirst.func_ns
  /\ last_op' = TwinResult("load", CompiledFirst.ok,
                   [last_op.twin EXCEPT
                      !.engine = EngineLoad(@, CompiledSecond.program),
                      !.signal_ns = CompiledSecond.signal_ns,
                      !.func_ns = CompiledSecond.func_ns,
                      !.ok = CompiledSecond.ok,
                      !.drained = <<>>])
  /\ UNCHANGED store_
  /\ UNCHANGED CoordinatorVars

\* both instances: store.write(signal_ns.resolve(path), value, unit)
TwinWrite(path, value, unit) ==
  LET w1 == StoreWrite(store_, resolve(signal_ns_, path), value, unit)
      w2 == StoreWrite(last_op.twin.store,
                       resolve(last_op.twin.signal_ns, path), value, unit)
  IN /\ engine_.loaded
     /\ store_' = w1.store
     /\ last_op' = TwinResult("write", w1.ok,
                      [last_op.twin EXCEPT !.store = w2.store, !.ok = w2.ok,
                                           !.drained = <<>>])
     /\ UNCHANGED <<engine_, signal_ns_, func_ns_>>
     /\ UNCHANGED CoordinatorVars

\* both instances: engine.tick(dt, store)
TwinTick(dt) ==
  LET t1 == EngineTick(engine_, dt, store_)
      t2 == EngineTick(last_op.twin.engine, dt, last_op.twin.store)
  IN /\ engine_.loaded
     /\ Len(engine_.command_queue) < MaxQueue
     /\ engine_' = t1.engine
     /\ store_' = t1.store
     /\ last_op' = [TwinResult("tick", t1.ok,
                       [last_op.twin EXCEPT !.engine = t2.engine,
                                            !.store = t2.store, !.ok = t2.ok,
                                            !.drained = <<>>])
                      EXCEPT !.dt = dt]
     /\ UNCHANGED <<signal_ns_, func_ns_>>
     /\ UNCHANGED CoordinatorVars

\* both instances: engine.drain_commands()
TwinDrain ==
  LET d1 == drain_commands(engine_)
      d2 == drain_commands(last_op.twin.engine)
  IN /\ engine_.loaded
     /\ engine_' = d1.engine
     /\ last_op' = [TwinResult("drain_commands", TRUE,
                       [last_op.twin EXCEPT !.engine = d2.engine, !.ok = TRUE,
                                            !.drained = d2.commands])
                      EXCEPT !.drained = d1.commands]
     /\ UNCHANGED <<store_, signal_ns_, func_ns_>>
     /\ UNCHANGED CoordinatorVars

NextTwins ==
  \/ TwinLoad
  \/ \E path \in {"a", "amb"}, v \in InputValues, u \in Units :
       TwinWrite(path, v, u)
  \/ \E dt \in Timesteps : TwinTick(dt)
  \/ TwinDrain

SpecTwins == Init /\ [][NextTwins]_vars

\* ------------------------------------------------------------------------
\* The compiler driven directly: a client builds a GraphSpec edge by edge and
\* model by model, compiles it with fresh namespaces, loads the program into
\* a fresh engine and ticks it once on an empty store.
\* ------------------------------------------------------------------------
\* linear and delay edges between three signals, and one edge with a
\* transform type parse_transform does not know
EdgeSpecs ==
  {[source_path |-> s, target_path |-> t, transform |-> tf] :
     s \in {"x", "y", "z"}, t \in {"x", "y", "z"},
     tf \in {[type |-> "linear", scale |-> 1, offset |-> 1],
             [type |-> "delay", delay_sec |-> 1]}}
    \cup {[source_path |-> "x", target_path |-> "y",
           transform |-> [type |-> "bogus"]]}

\* thermal masses writing x, with stability limits 2*C/h of 2 and 1
ModelSpecs ==
  {[id |-> "m", type |-> "thermal_mass", thermal_mass |-> 1,
    heat_transfer_coeff |-> h, initial_temp |-> 0, temp_signal |-> "x",
    power_signal |-> "p", ambient_signal |-> "amb"] : h \in {1, 2}}

\* the GraphSpec is still being built: nothing has compiled it yet
Building == last_op.op \in {"Init", "add_edge", "add_model"}

BuildResult(op, content) ==
  [NoResult EXCEPT !.op = op, !.content = content]

\* spec.edges.push_back(edge)
AddEdge(edge) ==
  /\ Building
  /\ Len(last_op.content.edges) < MaxEdges
  /\ last_op' = BuildResult("add_edge",
                   [last_op.content EXCEPT !.edges = Append(@, edge)])
  /\ UNCHANGED <<engine_, store_, signal_ns_, func_ns_>>
  /\ UNCHANGED CoordinatorVars

\* spec.models.push_back(model)
AddModel(model) ==
  /\ Building
  /\ Len(last_op.content.models) < MaxModels
  /\ last_op' = BuildResult("add_model",
                   [last_op.content EXCEPT !.models = Append(@, model)])
  /\ UNCHANGED <<engine_, store_, signal_ns_, func_ns_>>
  /\ UNCHANGED CoordinatorVars

\* program = compiler.compile(spec, signal_ns, func_ns, expected_dt), and
\* engine.load(program) when compile did not throw
CompileSpec(expected_dt) ==
  LET c == compile(last_op.content, <<>>, EmptyFuncNs, expected_dt)
  IN /\ Building
     /\ engine_' = IF c.ok THEN EngineLoad(engine_, c.program) ELSE engine_
     /\ signal_ns_' = c.signal_ns
     /\ func_ns_' = c.func_ns
     /\ last_op' = [BuildResult("compile", last_op.content) EXCEPT
                      !.ok = c.ok, !.error = c.error,
                      !.expected_dt = expected_dt]
     /\ UNCHANGED store_
     /\ UNCHANGED CoordinatorVars

\* engine.tick(dt, store) on the program just loaded
TickCompiled(dt) ==
  LET t == EngineTick(engine_, dt, store_)
  IN /\ last_op.op = "compile"
     /\ last_op.ok
     /\ engine_' = t.engine
     /\ store_' = t.store
     /\ last_op' = [last_op EXCEPT !.op = "tick", !.ok = t.ok, !.dt = dt]
     /\ UNCHANGED <<signal_ns_, func_ns_>>
     /\ UNCHANGED CoordinatorVars

NextCompiler ==
  \/ \E edge \in EdgeSpecs : AddEdge(edge)
  \/ \E model \in ModelSpecs : AddModel(model)
  \/ \E expected_dt \in {-1, 1, 2, 3} : CompileSpec(expected_dt)
  \/ \E dt \in {1, 2, 3} : TickCompiled(dt)

SpecCompiler == Init /\ [][NextCompiler]_vars

\* ------------------------------------------------------------------------
\* The signal store driven directly, as the store tests do: writes, unit
\* declarations, physics-driven marks and clears on a few signal ids.
\* ------------------------------------------------------------------------
StoreIds == {0, 1}

StoreResult(op, ok, id, value, unit) ==
  [NoResult EXCEPT !.op = op, !.ok = ok, !.id = id, !.value = value,
                   !.unit = unit, !.kept_units = last_op.kept_units]

\* store.write(id, value, unit)
StoreWriteCall(id, value, unit) ==
  LET w == StoreWrite(store_, id, value, unit)
  IN /\ store_' = w.store
     /\ last_op' = StoreResult("write", w.ok, id, value, unit)
     /\ UNCHANGED <<engine_, signal_ns_, func_ns_>>
     /\ UNCHANGED CoordinatorVars

\* store.declare_unit(id, expected_unit)
StoreDeclareUnit(id, unit) ==
  /\ store_' = declare_unit(store_, id, unit)
  /\ last_op' = [StoreResult("declare_unit", TRUE, id, 0, unit) EXCEPT
                   !.kept_units = [x \in DOMAIN @ \ {id} |-> @[x]]]
  /\ UNCHANGED <<engine_, signal_ns_, func_ns_>>
  /\ UNCHANGED CoordinatorVars

\* store.mark_physics_driven(id, driven)
StoreMark(id, driven) ==
  /\ store_' = set_physics_driven(store_, id, driven)
  /\ last_op' = StoreResult("mark_physics_driven", TRUE, id, 0, "")
  /\ UNCHANGED <<engine_, signal_ns_, func_ns_>>
  /\ UNCHANGED CoordinatorVars

\* store.clear()
StoreClearCall ==
  /\ store_' = StoreClear(store_)
  /\ last_op' = [StoreResult("clear", TRUE, 0, 0, "") EXCEPT
                   !.kept_units = store_.declared_units]
  /\ UNCHANGED <<engine_, signal_ns_, func_ns_>>
  /\ UNCHANGED CoordinatorVars

NextStore ==
  \/ \E id \in StoreIds \cup {INVALID_SIGNAL}, v \in InputValues,
        u \in {"", "dimensionless", "V", "A"} : StoreWriteCall(id, v, u)
  \/ \E id \in StoreIds, u \in {"dimensionless", "V", "A"} :
       StoreDeclareUnit(id, u)
  \/ \E id \in StoreIds, driven \in BOOLEAN : StoreMark(id, driven)
  \/ StoreClearCall

SpecStore == Init /\ [][NextStore]_vars

\* ------------------------------------------------------------------------
\* The namespaces driven directly, as the namespace tests do. The maps the
\* code keeps are carried next to the sequences of interned names that the
\* rest of this module uses for a namespace.
\* ------------------------------------------------------------------------
NamesOf(kind) == IF kind = "signal" THEN {"a", "b", "c"} ELSE {"a", "b"}
Kinds == {"signal", "device", "function"}
\* ids asked of lookup: those the names can get, one beyond, and the sentinel
LookupIds == {INVALID_SIGNAL} \cup (0 .. Cardinality(NamesOf("signal")))

\* the sequence of interned names of a namespace
NamesIn(kind) ==
  CASE kind = "signal" -> signal_ns_
    [] kind = "device" -> func_ns_.devices
    [] OTHER -> func_ns_.functions

NsResult(op, kind, name, id, tables) ==
  [NoResult EXCEPT !.op = op, !.kind = kind, !.name = name, !.id = id,
                   !.tables = tables]

\* ns.intern(path), func_ns.intern_device(name), func_ns.intern_function(name)
NsIntern(kind, name) ==
  LET r == TableIntern(last_op.tables[kind], name)
  IN /\ signal_ns_' = IF kind = "signal" THEN intern(signal_ns_, name)
                       ELSE signal_ns_
     /\ func_ns_' =
          CASE kind = "device" ->
                 [func_ns_ EXCEPT !.devices = intern(@, name)]
            [] kind = "function" ->
                 [func_ns_ EXCEPT !.functions = intern(@, name)]
            [] OTHER -> func_ns_
     /\ last_op' = NsResult("intern", kind, name, r.id,
                             [last_op.tables EXCEPT ![kind] = r.table])
     /\ UNCHANGED <<engine_, store_>>
     /\ UNCHANGED CoordinatorVars

\* ns.resolve(path), func_ns.resolve_device(name), resolve_function(name)
NsResolve(kind, name) ==
  /\ last_op' = NsResult("resolve", kind, name,
                          TableResolve(last_op.tables[kind], name),
                          last_op.tables)
  /\ UNCHANGED <<engine_, store_, signal_ns_, func_ns_>>
  /\ UNCHANGED CoordinatorVars

\* ns.lookup(id), func_ns.lookup_device(id), func_ns.lookup_function(id)
NsLookup(kind, id) ==
  /\ last_op' = NsResult("lookup", kind,
                          TableLookup(last_op.tables[kind], id), id,
                          last_op.tables)
  /\ UNCHANGED <<engine_, store_, signal_ns_, func_ns_>>
  /\ UNCHANGED CoordinatorVars

\* SignalNamespace::clear()
NsClearSignals ==
  /\ signal_ns_' = <<>>
  /\ last_op' = NsResult("clear", "signal", "", 0,
                          [last_op.tables EXCEPT !.signal = EmptyTable])
  /\ UNCHANGED <<engine_, store_, func_ns_>>
  /\ UNCHANGED CoordinatorVars

\* FunctionNamespace::clear()
NsClearFunctions ==
  /\ func_ns_' = EmptyFuncNs
  /\ last_op' = NsResult("clear", "function", "", 0,
                          [last_op.tables EXCEPT !.device = EmptyTable,
                                                 !.function = EmptyTable])
  /\ UNCHANGED <<engine_, store_, signal_ns_>>
  /\ UNCHANGED CoordinatorVars

NextNamespaces ==
  \/ \E kind \in Kinds : \E name \in NamesOf(kind) : NsIntern(kind, name)
  \/ \E kind \in Kinds : \E name \in NamesOf(kind) : NsResolve(kind, name)
  \/ \E kind \in Kinds, id \in LookupIds : NsLookup(kind, id)
  \/ NsClearSignals
  \/ NsClearFunctions

SpecNamespaces == Init /\ [][NextNamespaces]_vars

\* ------------------------------------------------------------------------
\* A delay transform driven directly, as the delay tests do: constructed
\* with a delay, then applied to one input after the other with the same dt.
\* ------------------------------------------------------------------------
\* DelayTransform tf(delay_sec), to be applied with dt
NewDelay(delay_sec, dt) ==
  /\ last_op' = [NoResult EXCEPT
                   !.op = "DelayTransform",
                   !.dt = dt,
                   !.transform =
                     parse_transform([type |-> "delay",
                                      delay_sec |-> delay_sec]).transform]
  /\ UNCHANGED <<engine_, store_, signal_ns_, func_ns_>>
  /\ UNCHANGED CoordinatorVars

\* tf.apply(input, dt)
ApplyDelay(input) ==
  LET r == TransformApply(last_op.transform, input, last_op.dt)
  IN /\ last_op.op \in {"DelayTransform", "apply"}
     /\ Len(last_op.inputs) < MaxApplies
     /\ last_op' = [last_op EXCEPT !.op = "apply",
                                   !.transform = r.transform,
                                   !.inputs = Append(@, input),
                                   !.outputs = Append(@, r.output)]
     /\ UNCHANGED <<engine_, store_, signal_ns_, func_ns_>>
     /\ UNCHANGED CoordinatorVars

NextDelay ==
  \/ \E delay_sec \in {-1, 0, 1, 2, 3, 5}, dt \in {1, 2, 3} :
       NewDelay(delay_sec, dt)
  \/ \E input \in {1, 2, 3} : ApplyDelay(input)

SpecDelay == Init /\ [][NextDelay]_vars

\* ------------------------------------------------------------------------
\* The four transforms with state, driven directly as their clone tests do:
\* constructed, applied a few times, cloned, and then the original and the
\* clone applied or reset independently of each other with the same dt.
\* Inputs are whole numbers; moving_average and first_order_lag give their
\* outputs in thousandths, so that the division and the exponential are
\* carried with three decimals.
\* ------------------------------------------------------------------------
\* the constructors: the configuration, and the state empty
NewTransform(type, param) ==
  [type |-> type, scale |-> 0, offset |-> 0,
   delay_sec |-> IF type = "delay" THEN param ELSE 0, buffer |-> <<>>,
   window_size |-> IF type = "moving_average" THEN param ELSE 0,
   samples |-> <<>>,
   max_rate |-> IF type = "rate_limiter" THEN param ELSE 0,
   last_output |-> 0,
   tau_s |-> IF type = "first_order_lag" THEN param ELSE 0,
   output |-> 0, initialized |-> FALSE]

\* std::accumulate(samples_.begin(), samples_.end(), 0.0)
RECURSIVE accumulate(_)
accumulate(samples) ==
  IF samples = <<>> THEN 0 ELSE Head(samples) + accumulate(Tail(samples))

\* std::clamp(delta, lo, hi)
clamp(delta, lo, hi) == IF delta < lo THEN lo ELSE IF delta > hi THEN hi ELSE delta

\* 1 - exp(-dt / tau_s) in thousandths, for the ratios 1, 2 and 1/2
alpha(dt, tau_s) == IF dt = tau_s THEN 632 ELSE IF dt = 2 * tau_s THEN 865 ELSE 393

\* apply of the four classes: [output, transform]
ApplyStateful(tf, input, dt) ==
  IF tf.type = "delay" THEN TransformApply(tf, input, dt)
  ELSE IF tf.type = "moving_average"
    THEN LET pushed == Append(tf.samples, input)
             kept == IF Len(pushed) > tf.window_size THEN Tail(pushed)
                                                    ELSE pushed
         IN [output |-> IF kept = <<>> THEN 0
                        ELSE (1000 * accumulate(kept)) \div Len(kept),
             transform |-> [tf EXCEPT !.samples = kept]]
  ELSE IF tf.type = "rate_limiter"
    THEN IF ~tf.initialized
           THEN [output |-> input,
                 transform |-> [tf EXCEPT !.last_output = input,
                                          !.initialized = TRUE]]
         ELSE IF tf.max_rate <= 0 \/ dt <= 0
           THEN [output |-> input,
                 transform |-> [tf EXCEPT !.last_output = input]]
         ELSE LET max_change == tf.max_rate * dt
                  delta == clamp(input - tf.last_output,
                                 0 - max_change, max_change)
              IN [output |-> tf.last_output + delta,
                  transform |-> [tf EXCEPT !.last_output = @ + delta]]
  ELSE \* first_order_lag
    IF ~tf.initialized
      THEN [output |-> 1000 * input,
            transform |-> [tf EXCEPT !.output = 1000 * input,
                                     !.initialized = TRUE]]
    ELSE IF tf.tau_s <= 0
      THEN [output |-> 1000 * input,
            transform |-> [tf EXCEPT !.output = 1000 * input]]
    ELSE LET y == tf.output
                    + (alpha(dt, tf.tau_s) * (1000 * input - tf.output))
                        \div 1000
         IN [output |-> y, transform |-> [tf EXCEPT !.output = y]]

\* reset of the four classes
ResetStateful(tf) ==
  [tf EXCEPT !.buffer = <<>>, !.samples = <<>>, !.last_output = 0,
             !.output = 0, !.initialized = FALSE]

\* the copy is constructed from the configuration and gets no state
CloneConfigOnly(tf) == ResetStateful(tf)

\* clone of the four classes: a new object constructed from the
\* configuration, then the state members assigned from this one
clone(tf) ==
  IF tf.type = "delay"
    THEN [NewTransform("delay", tf.delay_sec) EXCEPT !.buffer = tf.buffer]
  ELSE IF tf.type = "moving_average"
    THEN [NewTransform("moving_average", tf.window_size) EXCEPT
            !.samples = tf.samples]
  ELSE IF tf.type = "rate_limiter"
    THEN [NewTransform("rate_limiter", tf.max_rate) EXCEPT
            !.last_output = tf.last_output, !.initialized = tf.initialized]
  ELSE [NewTransform("first_order_lag", tf.tau_s) EXCEPT
          !.output = tf.output, !.initialized = tf.initialized]

\* Transform tf(param), to be applied with dt
Construct(type, param, dt) ==
  /\ last_op' = [NoResult EXCEPT !.op = "construct", !.dt = dt,
                                 !.transform = NewTransform(type, param)]
  /\ UNCHANGED <<engine_, store_, signal_ns_, func_ns_>>
  /\ UNCHANGED CoordinatorVars

\* tf.apply(input, dt) before the clone is taken
ApplyBefore(input) ==
  /\ last_op.op \in {"construct", "apply_before"}
  /\ last_op.applied < MaxCloneCalls
  /\ last_op' = [last_op EXCEPT
                   !.op = "apply_before",
                   !.applied = @ + 1,
                   !.transform =
                     ApplyStateful(@, input, last_op.dt).transform]
  /\ UNCHANGED <<engine_, store_, signal_ns_, func_ns_>>
  /\ UNCHANGED CoordinatorVars

\* copy = tf.clone()
CloneCall ==
  /\ last_op.op \in {"construct", "apply_before"}
  /\ last_op' = [last_op EXCEPT !.op = "take_copy", !.cloned = TRUE,
                                !.copy = clone(last_op.transform)]
  /\ UNCHANGED <<engine_, store_, signal_ns_, func_ns_>>
  /\ UNCHANGED CoordinatorVars

\* a call on one of the two objects: apply(input, dt), or reset() when
\* call is "reset" (recorded with output 0)
CallOn(copy, call, input) ==
  LET tf == IF copy THEN last_op.copy ELSE last_op.transform
      r == IF call = "reset"
             THEN [output |-> 0, transform |-> ResetStateful(tf)]
             ELSE ApplyStateful(tf, input, last_op.dt)
      event == [call |-> call, input |-> input]
  IN
  /\ last_op.cloned
  /\ Len(IF copy THEN last_op.copy_inputs ELSE last_op.inputs)
       < MaxCloneCalls
  /\ last_op' =
       IF copy
         THEN [last_op EXCEPT !.op = "call_copy",
                              !.copy = r.transform,
                              !.copy_inputs = Append(@, event),
                              !.copy_outputs = Append(@, r.output)]
         ELSE [last_op EXCEPT !.op = "call_original",
                              !.transform = r.transform,
                              !.inputs = Append(@, event),
                              !.outputs = Append(@, r.output)]
  /\ UNCHANGED <<engine_, store_, signal_ns_, func_ns_>>
  /\ UNCHANGED CoordinatorVars

NextClone ==
  \/ \E type \in {"delay", "moving_average", "rate_limiter",
                  "first_order_lag"}, param \in {0, 2}, dt \in {1, 2} :
       Construct(type, param, dt)
  \/ \E input \in {1, 3} : ApplyBefore(input)
  \/ CloneCall
  \/ \E copy \in BOOLEAN, input \in {1, 3} : CallOn(copy, "apply", input)
  \/ \E copy \in BOOLEAN : CallOn(copy, "reset", 0)

SpecClone == Init /\ [][NextClone]_vars

\* ------------------------------------------------------------------------
\* The rendezvous with providers that keep calling: one configuration, the
\* providers register and stay, and every session calls UpdateSignals again
\* after each return with a batch the store accepts.  A handler that holds
\* state_mutex_ runs to its return or to its wait, and a wait ends within
\* 2000 ms, so each call and each return is weakly fair.
\* ------------------------------------------------------------------------
\* the session calls again
Calling(s) ==
  \E b \in {c \in ShortBatches : c = <<>> \/ (c[1].path = "a" /\ c[1].unit = "V")} : UpdateSignals(s, b)

\* tick_cv_.wait_for returns, on the notification or on the timeout
Returning(s) == WaitTicked(s) \/ WaitTimeout(s)

NextProgress ==
  \/ ~loaded_ /\ LoadConfig(GoodSpec, "json", "")
  \/ \E r \in {<<"p1", <<>>>>, <<"p2", <<"heater">>>>} :
       RegisterProvider(r[1], r[2])
  \/ \E s \in SessionIds : Calling(s)
  \/ \E s \in SessionIds : WaitTicked(s)
  \/ \E s \in SessionIds : WaitTimeout(s)

SpecProgress ==
  /\ Init
  /\ [][NextProgress]_vars
  /\ \A s \in SessionIds : WF_vars(Calling(s)) /\ WF_vars(Returning(s))

\* ------------------------------------------------------------------------
\* Properties of the coordinator
\* ------------------------------------------------------------------------
Snapshot == <<last_completed_generation_, last_completed_sim_time_,
              last_completed_commands_>>

\* C1: engine.tick is invoked only inside an UpdateSignals call, in a state
\* where the session set is non-empty and every registered session has
\* submitted for the current generation G, and each invocation advances
\* tick_generation from G to exactly G+1 (no two ticks for one generation).
C1_OneTickPerGeneration ==
  [][last_op'.tick_invoked =>
       /\ last_op'.op = "UpdateSignals"
       /\ DOMAIN sessions_' # {}
       /\ \A s \in DOMAIN sessions_' :
            sessions_'[s].last_tick_generation = tick_generation_
       /\ tick_generation_' = tick_generation_ + 1]_vars

\* C2: when an UpdateSignals call for generation G is the last of its round
\* to arrive (every registered session has submitted for G and every other
\* session's call is still waiting for G), the caller performs the tick and
\* its response has tick_occurred = true with the sim_time of the
\* completed-tick snapshot of generation G+1.
C2_LastCallerTicks ==
  (/\ last_op.op = "UpdateSignals"
   /\ last_op.submitted
   /\ last_op.session_id \in DOMAIN sessions_
   /\ \A s \in DOMAIN sessions_ :
        /\ sessions_[s].last_tick_generation = last_op.generation
        /\ s # last_op.session_id =>
             /\ calls[s].pc = "waiting"
             /\ calls[s].current_generation = last_op.generation)
  => /\ last_op.tick_invoked
     /\ last_op.status = "OK"
     /\ last_op.tick_occurred
     /\ last_completed_generation_ = last_op.generation + 1
     /\ last_op.sim_time_sec = last_completed_sim_time_
     /\ last_op.sim_time_sec = (last_op.generation + 1) * dt_

\* C3: an UpdateSignals call that fails with UnknownSignal or
\* PermissionDenied leaves the signal store unchanged.
C3_RejectedBatchWritesNothing ==
  [][(/\ last_op'.op = "UpdateSignals"
      /\ last_op'.error \in {"UnknownSignal", "PermissionDenied"})
     => store_' = store_]_vars

\* C4: after a LoadConfig that failed with a compile error (raised after the
\* namespaces were cleared) the coordinator is unloaded: the RegisterProvider,
\* UpdateSignals, ReadSignals or Reset that follows fails with NotLoaded.
C4_CompileErrorUnloads ==
  [][(/\ last_op.op = "LoadConfig"
      /\ last_op.error = "CompileError"
      /\ last_op'.op \in {"RegisterProvider", "UpdateSignals", "ReadSignals",
                          "Reset"})
     => (~loaded_ /\ last_op'.error = "NotLoaded")]_vars

\* C5: if engine.tick fails inside the rendezvous-completing UpdateSignals
\* call, tick_generation, sim_time, the completed-tick snapshot, the store
\* contents and every session's last_tick_generation are as before the call.
C5_FailedTickChangesNothing ==
  [][last_op'.error = "TickFailed" =>
       /\ tick_generation_' = tick_generation_
       /\ sim_time_' = sim_time_
       /\ Snapshot' = Snapshot
       /\ store_' = store_
       /\ \A s \in DOMAIN sessions_' :
            /\ s \in DOMAIN sessions_
            /\ sessions_'[s].last_tick_generation
                 = sessions_[s].last_tick_generation]_vars

\* C6 (as stated): tick_generation never decreases, and it changes only
\* when a rendezvous completer finishes a tick, by exactly +1.
C6_GenerationMonotonic ==
  [][/\ tick_generation_' >= tick_generation_
     /\ tick_generation_' # tick_generation_ =>
          /\ last_op'.op = "UpdateSignals"
          /\ last_op'.tick_invoked
          /\ tick_generation_' = tick_generation_ + 1]_vars

\* C6 (amended): tick_generation changes only by exactly +1 when a
\* rendezvous completer finishes a tick, or back to 0 on a successful Reset
\* or a successful configuration-changing LoadConfig.
C6_GenerationStepsOrRestarts ==
  [][tick_generation_' # tick_generation_ =>
       \/ /\ last_op'.op = "UpdateSignals"
          /\ last_op'.tick_invoked
          /\ last_op'.status = "OK"
          /\ tick_generation_' = tick_generation_ + 1
       \/ /\ last_op'.op = "Reset"
          /\ last_op'.success
          /\ tick_generation_' = 0
       \/ /\ last_op'.op = "LoadConfig"
          /\ last_op'.config_changed
          /\ tick_generation_' = 0]_vars

\* a Reset took the generation back to 0 after a tick had completed: the
\* edge target still has the unit that tick declared
C6_ResetAfterTick ==
  /\ last_op.op = "Reset"
  /\ last_op.success
  /\ tick_generation_ = 0
  /\ DOMAIN sessions_ # {}
  /\ \E i \in DOMAIN engine_.edges :
       engine_.edges[i].target \in DOMAIN store_.declared_units

\* C7: while a program is loaded, an UpdateSignals batch naming an edge
\* target or a model output signal of that program is rejected with
\* PermissionDenied.
C7_ProtectedNamesRejected ==
  loaded_ =>
    \A p \in {"b", "t"}, u \in Units :
      WriteSignals(<<[path |-> p, value |-> 1, unit |-> u]>>, signal_ns_,
                   protected_write_signals_, store_).error
        = "PermissionDenied"

\* C8: the commands of a tick_occurred = true response for session s are the
\* commands of the completed-tick snapshot whose device name is one of s's
\* device_ids, in queue order; a session that owns none of the commanded
\* devices, has an empty device list or is no longer registered gets none.
C8_CommandsFilteredByOwner ==
  last_op.tick_occurred =>
    LET owned == IF last_op.session_id \in DOMAIN sessions_
                   THEN Range(sessions_[last_op.session_id].device_ids)
                   ELSE {}
        Mine(cmd) == lookup(func_ns_.devices, cmd.device) \in owned
        mine == SelectSeq(last_completed_commands_, Mine)
    IN /\ Len(last_op.commands) = Len(mine)
       /\ \A i \in DOMAIN mine :
            /\ last_op.commands[i].device
                 = lookup(func_ns_.devices, mine[i].device)
            /\ last_op.commands[i].function
                 = lookup(func_ns_.functions, mine[i].function)
            /\ last_op.commands[i].args = mine[i].args

\* the owner of the heater got its two commands out of a snapshot of three
C8_HeaterOwnerServed ==
  /\ last_op.tick_occurred
  /\ Len(last_completed_commands_) = 3
  /\ Len(last_op.commands) = 2
  /\ Cardinality(DOMAIN sessions_) = 2

\* C9: no two sessions have the same provider_id, no device id is in the
\* device_ids of two sessions, and a RegisterProvider rejected with
\* AlreadyExists or OwnershipConflict adds no session.
C9_ExclusiveOwnership ==
  [][/\ \A s, t \in DOMAIN sessions_' :
          s # t =>
            /\ sessions_'[s].provider_id # sessions_'[t].provider_id
            /\ Range(sessions_'[s].device_ids)
                 \cap Range(sessions_'[t].device_ids) = {}
     /\ (/\ last_op'.op = "RegisterProvider"
         /\ last_op'.error \in {"AlreadyExists", "OwnershipConflict"})
        => /\ DOMAIN sessions_' \subseteq DOMAIN sessions_
           /\ \A s \in DOMAIN sessions_' : sessions_'[s] = sessions_[s]]_vars

\* a provider asked for a device that a registered session owns
C9_DeviceRefused ==
  /\ last_op.op = "RegisterProvider"
  /\ last_op.error = "OwnershipConflict"
  /\ \E s \in DOMAIN sessions_ : sessions_[s].device_ids # <<>>

Unchanged10 ==
  UNCHANGED <<engine_, signal_ns_, func_ns_, store_, sessions_, sim_time_,
              tick_generation_, last_completed_generation_,
              last_completed_sim_time_, last_completed_commands_,
              loaded_, current_config_hash_>>

\* C10 (as stated): with a configuration loaded, a LoadConfig whose
\* config_hash equals the current config hash is a no-op: success with config_changed = false, and program,
\* namespaces, store, sessions, sim_time, tick_generation and snapshot are
\* unchanged.
C10_SameHashIsNoOp ==
  [][(/\ loaded_
      /\ last_op'.op = "LoadConfig"
      /\ last_op'.config_hash = current_config_hash_)
     => (last_op'.success /\ ~last_op'.config_changed /\ Unchanged10)]_vars

\* C10 (amended): a LoadConfig whose config_hash is not empty and equals the
\* current config hash is a no-op.
C10_SameNonEmptyHashIsNoOp ==
  [][(/\ last_op'.op = "LoadConfig"
      /\ last_op'.config_hash # ""
      /\ last_op'.config_hash = current_config_hash_)
     => (last_op'.success /\ ~last_op'.config_changed /\ Unchanged10)]_vars

\* a matching hash was sent while a session was registered and a tick had
\* completed
C10_NoOpWhileRunning ==
  /\ last_op.op = "LoadConfig"
  /\ last_op.success
  /\ ~last_op.config_changed
  /\ last_op.config_hash = current_config_hash_
  /\ DOMAIN sessions_ # {}
  /\ tick_generation_ > 0

\* C11: a successful Reset zeroes sim_time, tick_generation and the
\* completed-tick snapshot and keeps every session registered with
\* last_tick_generation = None; a session is recorded as submitted again only
\* by its own accepted UpdateSignals call, and engine.tick is invoked only
\* when every registered session is recorded for the current generation, so
\* submissions made before the Reset do not count.
C11_ResetRestartsRendezvous ==
  [][/\ (last_op'.op = "Reset" /\ last_op'.success) =>
          /\ sim_time_' = 0
          /\ tick_generation_' = 0
          /\ Snapshot' = <<0, 0, <<>>>>
          /\ DOMAIN sessions_' = DOMAIN sessions_
          /\ \A s \in DOMAIN sessions_ :
               /\ sessions_'[s].last_tick_generation = nullopt
               /\ sessions_'[s].provider_id = sessions_[s].provider_id
               /\ sessions_'[s].device_ids = sessions_[s].device_ids
     /\ \A s \in DOMAIN sessions_' :
          (/\ sessions_'[s].last_tick_generation # nullopt
           /\ \/ s \notin DOMAIN sessions_
              \/ sessions_[s].last_tick_generation = nullopt)
          => /\ last_op'.op = "UpdateSignals"
             /\ last_op'.session_id = s
             /\ last_op'.submitted
             /\ sessions_'[s].last_tick_generation = tick_generation_
     /\ last_op'.tick_invoked =>
          \A s \in DOMAIN sessions_' :
            sessions_'[s].last_tick_generation = tick_generation_]_vars

\* a Reset arrived while a registered provider was waiting for its rendezvous
C11_ResetDuringRendezvous ==
  /\ last_op.op = "Reset"
  /\ last_op.success
  /\ \E s \in DOMAIN sessions_ :
       /\ calls[s].pc = "waiting"
       /\ sessions_[s].last_tick_generation = nullopt
  /\ Cardinality(DOMAIN sessions_) = 2

\* C12: a successful UnregisterProvider removes the named session and no
\* other, and leaves tick_generation, sim_time, the snapshot, the store and
\* the engine as they were, also when every remaining session has submitted
\* for the current generation; the generation advances only in a step of an
\* UpdateSignals call that invoked the tick, and a waiting call reports a
\* tick only when the generation has passed the one it submitted for.
C12_UnregisterNeverTicks ==
  [][/\ (last_op'.op = "UnregisterProvider" /\ last_op'.success) =>
          /\ last_op'.session_id \in DOMAIN sessions_
          /\ DOMAIN sessions_' = DOMAIN sessions_ \ {last_op'.session_id}
          /\ \A s \in DOMAIN sessions_' : sessions_'[s] = sessions_[s]
          /\ UNCHANGED <<tick_generation_, sim_time_, Snapshot, store_,
                         engine_, calls>>
     /\ tick_generation_' > tick_generation_ =>
          /\ last_op'.op = "UpdateSignals"
          /\ last_op'.tick_invoked
     /\ (last_op'.op = "WaitReturn" /\ last_op'.tick_occurred) =>
          tick_generation_ > last_op'.generation]_vars

\* a provider left while the only other one, already submitted, was waiting
C12_LeftDuringRendezvous ==
  /\ last_op.op = "UnregisterProvider"
  /\ last_op.success
  /\ AllReady(sessions_, tick_generation_)
  /\ \E s \in DOMAIN sessions_ :
       /\ calls[s].pc = "waiting"
       /\ calls[s].current_generation = tick_generation_

\* C13: an UpdateSignals call that arrives before every session has
\* submitted for generation G records its session for G and waits; it returns
\* with the tick only when tick_generation > G, and otherwise, when the
\* bounded wait expires, with OK, tick_occurred = false and the current
\* sim_time; its return changes neither tick_generation, sim_time, the
\* snapshot, the store nor the sessions, so the submission for G stays.
C13_TimeoutIsNotAnError ==
  [][/\ (last_op'.op = "UpdateSignals" /\ last_op'.status = "WAITING") =>
          LET s == last_op'.session_id
          IN /\ ~AllReady(sessions_', tick_generation_)
             /\ sessions_'[s].last_tick_generation = tick_generation_
             /\ calls'[s] = [pc |-> "waiting",
                             current_generation |-> tick_generation_]
             /\ UNCHANGED <<tick_generation_, sim_time_, Snapshot>>
     /\ last_op'.op = "WaitReturn" =>
          LET s == last_op'.session_id
              G == calls[s].current_generation
          IN /\ calls[s].pc = "waiting"
             /\ calls'[s].pc = "idle"
             /\ last_op'.status = "OK"
             /\ last_op'.generation = G
             /\ last_op'.tick_occurred = (tick_generation_ > G)
             /\ ~(tick_generation_ > G) =>
                  /\ last_op'.sim_time_sec = sim_time_
                  /\ last_op'.commands = <<>>
             /\ UNCHANGED <<tick_generation_, sim_time_, Snapshot, store_,
                            engine_, sessions_>>]_vars

\* a wait expired without a tick and the caller is still recorded for the
\* generation it submitted
C13_WaitExpired ==
  /\ last_op.op = "WaitReturn"
  /\ ~last_op.tick_occurred
  /\ last_op.status = "OK"
  /\ last_op.session_id \in DOMAIN sessions_
  /\ sessions_[last_op.session_id].last_tick_generation = last_op.generation
  /\ tick_generation_ = last_op.generation
  /\ tick_generation_ > 0

\* C14: a RegisterProvider call with a provider id, and an UpdateSignals
\* call of a registered session, leave no session registered whose
\* last_update is older than session_timeout, keep every session that is not
\* that old, and never evict the session making the UpdateSignals call; the
\* readiness check counts only the sessions left after the eviction, so an
\* accepted UpdateSignals invokes the tick exactly when the caller and every
\* session that is not stale have submitted for the current generation.
C14_StaleSessionsEvicted ==
  [][/\ (/\ last_op'.op = "RegisterProvider"
         /\ last_op'.error \notin {"NotLoaded", "InvalidArgument"}) =>
          /\ \A s \in DOMAIN sessions_' : ~sessions_'[s].stale
          /\ \A s \in DOMAIN sessions_ :
               (~sessions_[s].stale) <=> (s \notin last_op'.evicted)
          /\ \A s \in DOMAIN sessions_ \ last_op'.evicted :
               s \in DOMAIN sessions_' /\ sessions_'[s] = sessions_[s]
     /\ (/\ last_op'.op = "UpdateSignals"
         /\ last_op'.error \notin {"NotLoaded", "UnknownSession"}) =>
          LET caller == last_op'.session_id
              fresh == {s \in DOMAIN sessions_ :
                          s = caller \/ ~sessions_[s].stale}
          IN /\ caller \in DOMAIN sessions_
             /\ DOMAIN sessions_' = fresh
             /\ last_op'.evicted = DOMAIN sessions_ \ fresh
             /\ \A s \in DOMAIN sessions_' : ~sessions_'[s].stale
             /\ last_op'.submitted =>
                  (last_op'.tick_invoked <=>
                     \A s \in fresh \ {caller} :
                       /\ sessions_[s].last_tick_generation # nullopt
                       /\ sessions_[s].last_tick_generation
                            >= tick_generation_)]_vars

\* a provider that stopped calling and had not submitted was evicted by the
\* call of another provider, which then ticked
C14_SilentProviderEvicted ==
  /\ last_op.op = "UpdateSignals"
  /\ last_op.evicted # {}
  /\ last_op.tick_invoked
  /\ last_op.tick_occurred
  /\ DOMAIN sessions_ = {last_op.session_id}

\* C15: while a program is loaded, ReadSignals reports the model output
\* signal t with physics_driven = true and the signal b, which is only an
\* edge target, with physics_driven = false, in every reachable state.
C15_ModelOutputsPhysicsDriven ==
  loaded_ =>
    LET signals == ReadLoop(<<"t", "b">>, signal_ns_, store_)
    IN /\ Len(signals) = 2
       /\ signals[1].path = "t" /\ signals[1].physics_driven
       /\ signals[2].path = "b" /\ ~signals[2].physics_driven

\* ------------------------------------------------------------------------
\* Properties of the engine
\* ------------------------------------------------------------------------
\* C16: Engine.tick fails if no program is loaded, if dt <= 0, or if dt
\* exceeds the stability limit 2*C/h of a model of the loaded GraphSpec; a
\* tick that fails one of these checks changes no model state, transform
\* state, store value or queued command.
C16_GuardedTickChangesNothing ==
  [][last_op'.op = "tick" =>
       LET dt == last_op'.dt
           models == last_op.content.models
           unstable == \E i \in DOMAIN models :
                         /\ models[i].heat_transfer_coeff > 0
                         /\ dt * models[i].heat_transfer_coeff
                              > 2 * models[i].thermal_mass
       IN (last_op.content = EmptyGraphSpec \/ dt <= 0 \/ unstable) =>
            /\ ~last_op'.ok
            /\ UNCHANGED <<engine_, store_>>]_vars

\* a tick refused for its timestep while the model was warm, the delay line
\* filled and commands queued
C16_UnstableTickRefused ==
  /\ last_op.op = "tick"
  /\ ~last_op.ok
  /\ last_op.dt = 3
  /\ engine_.loaded
  /\ engine_.command_queue # <<>>
  /\ \E i \in DOMAIN engine_.models : engine_.models[i].temperature # 0
  /\ \E i \in DOMAIN engine_.edges : engine_.edges[i].transform.buffer # <<>>

\* C17: in a successful tick the model stage runs first, on the inputs as
\* they were before the tick; the edge t -> c then reads the temperature the
\* model wrote in this tick, and the rules, in spec order with their actions
\* in order, read the model and edge outputs of this tick.
C17_StagesInOrder ==
  [][(last_op'.op = "tick" /\ last_op'.ok) =>
       LET m == last_op.content.models[1]
           Before(path) == StoreRead(store_, resolve(signal_ns_, path)).value
           After(path) == StoreRead(store_', resolve(signal_ns_, path)).value
           T == engine_.models[1].temperature
           heat_loss == m.heat_transfer_coeff * (T - Before("amb"))
       IN /\ After("t") = T + ((Before("a") - heat_loss) \div m.thermal_mass)
                                * last_op'.dt
          /\ After("c") = 2 * After("t") + 1
          /\ last_op'.emitted
               = Expected(last_op.content.rules, signal_ns_, func_ns_, store_')
          /\ engine_'.command_queue
               = engine_.command_queue \o last_op'.emitted]_vars

\* a tick in which the temperature moved and a rule fired that would not
\* have fired on the values of the tick before
C17_RuleFiredOnFreshValues ==
  /\ last_op.op = "tick"
  /\ last_op.ok
  /\ StoreRead(last_op.before, resolve(signal_ns_, "t")).value
       # StoreRead(store_, resolve(signal_ns_, "t")).value
  /\ StoreRead(last_op.before, resolve(signal_ns_, "c")).value
       # StoreRead(store_, resolve(signal_ns_, "c")).value
  /\ Expected(last_op.content.rules, signal_ns_, func_ns_, last_op.before)
       = <<>>
  /\ Len(last_op.emitted) = 3

Kept(e) == ~e.discarded

Current(e) == ~e.discarded /\ ~e.stale

\* C19: after load the edges, models and rules of the engine are exactly
\* those of the new program, and a later drain_commands returns no command
\* that was queued under the previously loaded program.
C19_LoadDiscardsPreviousState ==
  /\ last_op.op = "load" =>
       LET program == CompiledForEngine[last_op.content].program
       IN /\ engine_.loaded
          /\ engine_.edges = program.edges
          /\ engine_.models = program.models
          /\ engine_.rules = program.rules
  /\ last_op.op = "drain_commands" =>
       LET current == SelectSeq(last_op.queued, Current)
       IN last_op.drained = [i \in DOMAIN current |-> current[i].command]

\* C20: after engine.reset() with the store cleared, the calls made since
\* the reset leave the models, the transforms, the command queue and the
\* store values as the same calls leave a freshly loaded instance of the same
\* program, and the last call has the same outcome on both.
C20_ReplayEqualsFreshInstance ==
  last_op.replaying =>
    LET fresh == Replay(last_op.trace, signal_ns_,
                        FreshInstance(last_op.content))
    IN /\ fresh.engine.models = engine_.models
       /\ fresh.engine.edges = engine_.edges
       /\ fresh.engine.command_queue = engine_.command_queue
       /\ fresh.store.signals = store_.signals
       /\ fresh.store.physics_driven = store_.physics_driven
       /\ last_op.trace # <<>> =>
            /\ fresh.ok = last_op.ok
            /\ fresh.drained = last_op.drained

\* ------------------------------------------------------------------------
\* Properties of two engine instances
\* ------------------------------------------------------------------------
\* C21: two independent engine instances loaded with programs compiled from
\* the same GraphSpec, started from the same (empty) store and given the same
\* writes, ticks and drains, agree after every call: the same call outcome,
\* the same value, unit and physics-driven flag for every signal path, and
\* the same drained command sequence by device and function name.
C21_TwinsAgree ==
  /\ last_op.ok = last_op.twin.ok
  /\ ByPath(store_, signal_ns_)
       = ByPath(last_op.twin.store, last_op.twin.signal_ns)
  /\ ByName(last_op.drained, func_ns_)
       = ByName(last_op.twin.drained, last_op.twin.func_ns)
  /\ ByName(engine_.command_queue, func_ns_)
       = ByName(last_op.twin.engine.command_queue, last_op.twin.func_ns)

\* both instances drained two commands after ticks that ran their edges in
\* different orders
C21_TwinsDrained ==
  /\ last_op.op = "drain_commands"
  /\ Len(last_op.drained) >= 2
  /\ StoreRead(store_, resolve(signal_ns_, "e")).value > 2
  /\ EdgePaths(engine_, signal_ns_)
       # EdgePaths(last_op.twin.engine, last_op.twin.signal_ns)

\* ------------------------------------------------------------------------
\* Properties of the compiler
\* ------------------------------------------------------------------------
\* the transform types of parse_transform
KnownTransforms ==
  {"linear", "first_order_lag", "delay", "noise", "saturation", "deadband",
   "rate_limiter", "moving_average"}

\* the edges of a GraphSpec as (source, target) pairs of paths
EdgePairs(spec, with_delay) ==
  {<<spec.edges[i].source_path, spec.edges[i].target_path>> :
     i \in {j \in DOMAIN spec.edges :
              with_delay \/ spec.edges[j].transform.type # "delay"}}

\* the pairs joined by a directed path of one or more edges
RECURSIVE Reach(_)
Reach(R) ==
  LET joined == R \cup {<<pq[1][1], pq[2][2]>> :
                          pq \in {rr \in R \X R : rr[1][2] = rr[2][1]}}
  IN IF joined = R THEN R ELSE Reach(joined)

\* a directed cycle of any length over the non-delay edges / over all edges
HasCycle(spec, with_delay) ==
  \E pr \in Reach(EdgePairs(spec, with_delay)) : pr[1] = pr[2]

\* the writers of a GraphSpec: its edge targets and its model outputs
WriterPaths(spec) ==
  [i \in DOMAIN spec.edges |-> spec.edges[i].target_path]
    \o [i \in DOMAIN spec.models |-> spec.models[i].temp_signal]

HasMultipleWriters(spec) ==
  \E i, j \in DOMAIN WriterPaths(spec) :
    i # j /\ WriterPaths(spec)[i] = WriterPaths(spec)[j]

HasUnknownTransform(spec) ==
  \E i \in DOMAIN spec.edges :
    spec.edges[i].transform.type \notin KnownTransforms

\* dt exceeds the stability limit 2*C/h of some model of the GraphSpec
ExceedsLimit(spec, dt) ==
  \E i \in DOMAIN spec.models :
    /\ spec.models[i].heat_transfer_coeff > 0
    /\ dt * spec.models[i].heat_transfer_coeff
         > 2 * spec.models[i].thermal_mass

\* a compile step that runs before the writer ownership check throws
FailsBeforeWriters(spec, expected_dt) ==
  \/ expected_dt > 0 /\ ExceedsLimit(spec, expected_dt)
  \/ HasUnknownTransform(spec)

\* C22 as stated: compile fails with AlgebraicLoop for every GraphSpec whose
\* non-delay edges contain a directed cycle of any length, a non-delay
\* self-loop included.
C22_CycleFailsAsAlgebraicLoop ==
  (last_op.op = "compile" /\ HasCycle(last_op.content, FALSE))
    => (~last_op.ok
        /\ last_op.error = "Cycle detected in non-delay subgraph")

\* C22: compile fails for every GraphSpec whose non-delay edges contain a
\* directed cycle of any length, a non-delay self-loop included, and the
\* failure is the algebraic loop exactly when no earlier step of compile
\* (stability check, transform parsing, writer ownership check) fails.
C22_CycleFails ==
  (last_op.op = "compile" /\ HasCycle(last_op.content, FALSE))
    => /\ ~last_op.ok
       /\ (last_op.error = "Cycle detected in non-delay subgraph")
            <=> ~(\/ FailsBeforeWriters(last_op.content, last_op.expected_dt)
                  \/ HasMultipleWriters(last_op.content))

\* a cycle through three signals was refused as an algebraic loop
C22_ThreeCycleRefused ==
  /\ last_op.op = "compile"
  /\ {<<"x", "y">>, <<"y", "z">>, <<"z", "x">>}
       \subseteq EdgePairs(last_op.content, FALSE)
  /\ ~last_op.ok
  /\ last_op.error = "Cycle detected in non-delay subgraph"

\* C23: delay edges are excluded from cycle detection and from the
\* topological sort: if every directed cycle of the edge graph contains a
\* delay edge and no other validation fails, compile succeeds.
C23_DelayBreaksCycles ==
  (/\ last_op.op = "compile"
   /\ ~HasCycle(last_op.content, FALSE)
   /\ ~FailsBeforeWriters(last_op.content, last_op.expected_dt)
   /\ ~HasMultipleWriters(last_op.content))
    => (last_op.ok /\ engine_.loaded)

\* a GraphSpec whose edge graph has a cycle, broken by a delay edge, compiled
C23_FeedbackCompiled ==
  /\ last_op.op = "compile"
  /\ last_op.ok
  /\ HasCycle(last_op.content, TRUE)
  /\ Len(engine_.edges) = MaxEdges

\* C24 as stated: compile fails with MultipleWriters whenever a signal has
\* more than one writer.
C24_MultipleWritersFailAsSuch ==
  (last_op.op = "compile" /\ HasMultipleWriters(last_op.content))
    => (~last_op.ok /\ last_op.error = "Multiple writers")

\* C24: compile fails whenever a signal has more than one writer (two edges,
\* delay or not, with the same target, an edge target that is a model's
\* output, two models with the same output), and the failure is the multiple
\* writers error exactly when no earlier step of compile (stability check,
\* transform parsing) fails.
C24_MultipleWritersFail ==
  (last_op.op = "compile" /\ HasMultipleWriters(last_op.content))
    => /\ ~last_op.ok
       /\ (last_op.error = "Multiple writers")
            <=> ~FailsBeforeWriters(last_op.content, last_op.expected_dt)

\* an edge onto a model's output was refused
C24_EdgeOntoModelOutputRefused ==
  /\ last_op.op = "compile"
  /\ last_op.error = "Multiple writers"
  /\ Len(last_op.content.models) = 1
  /\ Len(last_op.content.edges) = 1
  /\ last_op.content.edges[1].transform.type = "delay"

\* the edges of the GraphSpec and of the loaded program, by path
SpecEdges(spec) ==
  [i \in DOMAIN spec.edges |->
     [source |-> spec.edges[i].source_path,
      target |-> spec.edges[i].target_path,
      is_delay |-> spec.edges[i].transform.type = "delay"]]

ProgramEdges(eng, ns) ==
  [i \in DOMAIN eng.edges |->
     [source |-> lookup(ns, eng.edges[i].source),
      target |-> lookup(ns, eng.edges[i].target),
      is_delay |-> eng.edges[i].is_delay]]

\* C25: on a successful compile the program's edges are a permutation of the
\* spec's edges, all delay edges first and in spec order, then the non-delay
\* edges with e1 before e2 whenever e1.target = e2.source.
C25_EdgeOrder ==
  (last_op.op = "compile" /\ last_op.ok)
    => LET prog == ProgramEdges(engine_, signal_ns_)
           given == SpecEdges(last_op.content)
       IN /\ Len(prog) = Len(given)
          /\ \A e \in Range(given) \cup Range(prog) :
               Cardinality({i \in DOMAIN prog : prog[i] = e})
                 = Cardinality({i \in DOMAIN given : given[i] = e})
          /\ SelectSeq(prog, LAMBDA e : e.is_delay)
               = SelectSeq(given, LAMBDA e : e.is_delay)
          /\ \A i, j \in DOMAIN prog :
               (prog[j].is_delay /\ i < j) => prog[i].is_delay
          /\ \A i, j \in DOMAIN prog :
               (/\ ~prog[i].is_delay
                /\ ~prog[j].is_delay
                /\ prog[i].target = prog[j].source) => i < j

\* a compile that had to move edges: a delay edge given last and a chain
\* given in reverse
C25_EdgesReordered ==
  /\ last_op.op = "compile"
  /\ last_op.ok
  /\ SpecEdges(last_op.content)
       = << [source |-> "y", target |-> "z", is_delay |-> FALSE],
            [source |-> "x", target |-> "y", is_delay |-> FALSE],
            [source |-> "z", target |-> "x", is_delay |-> TRUE] >>
  /\ ProgramEdges(engine_, signal_ns_)
       = << [source |-> "z", target |-> "x", is_delay |-> TRUE],
            [source |-> "x", target |-> "y", is_delay |-> FALSE],
            [source |-> "y", target |-> "z", is_delay |-> FALSE] >>

Normalized(unit) == IF unit = "" THEN "dimensionless" ELSE unit

\* C27: unit contract. A write to a signal (a valid id) that has a declared
\* unit - set by its first non-dimensionless write or by declare_unit - fails
\* when its normalised unit differs, an empty or "dimensionless" unit
\* included, and then leaves stored value, stored unit and declared unit as
\* they were; a first non-dimensionless write declares its unit; and a
\* dimensionless write made before any declaration succeeds and declares
\* nothing.
C27_UnitContract ==
  [][(last_op'.op = "write" /\ last_op'.id # INVALID_SIGNAL) =>
       LET id == last_op'.id
           unit == Normalized(last_op'.unit)
           declared == id \in DOMAIN store_.declared_units
       IN /\ (declared /\ store_.declared_units[id] # unit)
               => (~last_op'.ok /\ store_' = store_)
          /\ (~declared /\ unit # "dimensionless")
               => /\ last_op'.ok
                  /\ store_'.declared_units
                       = (id :> unit) @@ store_.declared_units
          /\ (~declared /\ unit = "dimensionless")
               => /\ last_op'.ok
                  /\ StoreRead(store_', id)
                       = [value |-> last_op'.value, unit |-> "dimensionless"]
                  /\ store_'.declared_units = store_.declared_units]_vars

\* a write without a unit was refused on a signal whose unit an earlier
\* write had fixed, after a dimensionless write had not fixed it
C27_DimensionlessRefused ==
  /\ last_op.op = "write"
  /\ last_op.id = 1
  /\ last_op.unit = ""
  /\ ~last_op.ok
  /\ 1 \in DOMAIN store_.declared_units
  /\ StoreRead(store_, 1).unit = "V"
  /\ StoreRead(store_, 0).unit = "dimensionless"
  /\ StoreRead(store_, 0).value = 2
  /\ 0 \notin DOMAIN store_.declared_units

\* C28: clear drops all values and physics-driven flags but keeps the
\* declared units: after clear every read returns (0.0, "dimensionless") and
\* no id is physics-driven, and a later write whose unit differs from the
\* unit declared before the clear still fails.
C28_ClearKeepsDeclaredUnits ==
  /\ last_op.op = "clear"
       => /\ \A id \in StoreIds \cup {INVALID_SIGNAL} :
               /\ StoreRead(store_, id) = DefaultSignal
               /\ id \notin store_.physics_driven
          /\ store_.declared_units = last_op.kept_units
  /\ (/\ last_op.op = "write"
      /\ last_op.id \in DOMAIN last_op.kept_units
      /\ last_op.kept_units[last_op.id] # Normalized(last_op.unit))
       => ~last_op.ok

\* a write in another unit was refused after a clear, the signal reading as
\* never written
C28_RefusedAfterClear ==
  /\ last_op.op = "write"
  /\ ~last_op.ok
  /\ last_op.unit = "A"
  /\ last_op.id \in DOMAIN last_op.kept_units
  /\ last_op.kept_units[last_op.id] = "V"
  /\ StoreRead(store_, last_op.id) = DefaultSignal

\* ------------------------------------------------------------------------
\* Properties of the namespaces
\* ------------------------------------------------------------------------
\* C29: interning is a stable injection. Between clears the names interned
\* so far hold the ids 0, 1, 2, ... in the order of their first intern, none
\* of them the sentinel, and lookup inverts intern; an intern returns the id
\* of its name and, for a name already interned, changes nothing; a resolve
\* of a never-interned name returns the sentinel, and no resolve or lookup
\* changes a table.
C29_InternIsStableInjection ==
  [][/\ \A kind \in Kinds :
          LET t == last_op'.tables[kind]
              order == NamesIn(kind)'
          IN /\ DOMAIN t.to_id = Range(order)
             /\ \A i \in DOMAIN order :
                  /\ t.to_id[order[i]] = i - 1
                  /\ TableLookup(t, i - 1) = order[i]
                  /\ \A j \in DOMAIN order : order[i] = order[j] => i = j
             /\ \A name \in NamesOf(kind) :
                  TableResolve(t, name) = resolve(order, name)
             /\ \A id \in LookupIds :
                  TableLookup(t, id) = lookup(order, id)
     /\ last_op'.op = "intern"
          => LET before == last_op.tables[last_op'.kind]
                 after == last_op'.tables[last_op'.kind]
             IN /\ last_op'.id # INVALID_SIGNAL
                /\ TableResolve(after, last_op'.name) = last_op'.id
                /\ TableLookup(after, last_op'.id) = last_op'.name
                /\ last_op'.name \in DOMAIN before.to_id
                     => /\ last_op'.id = before.to_id[last_op'.name]
                        /\ last_op'.tables = last_op.tables
                /\ last_op'.name \notin DOMAIN before.to_id
                     => last_op'.id = Cardinality(DOMAIN before.to_id)
     /\ last_op'.op \in {"resolve", "lookup"}
          => last_op'.tables = last_op.tables
     /\ (/\ last_op'.op = "resolve"
         /\ last_op'.name \notin Range(NamesIn(last_op'.kind)))
          => last_op'.id = INVALID_SIGNAL]_vars

\* the first of three names, interned again, got its id back
C29_InternedAgain ==
  /\ last_op.op = "intern"
  /\ last_op.kind = "signal"
  /\ last_op.name = "c"
  /\ last_op.id = 0
  /\ signal_ns_ = <<"c", "b", "a">>
  /\ last_op.tables.signal.next_id = 3
  /\ last_op.tables.device.next_id = 1

\* ------------------------------------------------------------------------
\* Properties of the delay transform
\* ------------------------------------------------------------------------
\* a / b rounded to the nearest integer, halves upwards (a >= 0, b > 0)
Round(a, b) ==
  CHOOSE n \in 0 .. a + 1 :
    2 * b * n <= 2 * a + b /\ 2 * a + b < 2 * b * (n + 1)

\* N = max(1, round(delay_sec / dt))
DelaySamples(delay_sec, dt) ==
  IF Round(delay_sec, dt) < 1 THEN 1 ELSE Round(delay_sec, dt)

\* C30: a delay transform applied with constant dt and
\* N = max(1, round(delay_sec/dt)) returns at call k (from 0) the input of
\* call k-N when k >= N and the input of call 0 when k < N, and holds at most
\* N samples after an apply; with delay_sec <= 0 every call returns its
\* input and nothing is buffered.
C30_ExactDelay ==
  last_op.op = "apply"
    => IF last_op.transform.delay_sec <= 0
         THEN /\ last_op.outputs = last_op.inputs
              /\ last_op.transform.buffer = <<>>
         ELSE LET N == DelaySamples(last_op.transform.delay_sec, last_op.dt)
              IN /\ Len(last_op.outputs) = Len(last_op.inputs)
                 /\ \A k \in 0 .. Len(last_op.inputs) - 1 :
                      last_op.outputs[k + 1]
                        = IF k >= N THEN last_op.inputs[k - N + 1]
                                    ELSE last_op.inputs[1]
                 /\ Len(last_op.transform.buffer) <= N

\* a delay of 2.5 steps, rounded to 3, returned the second input at the
\* fifth call
C30_DelayedByThree ==
  /\ last_op.op = "apply"
  /\ last_op.transform.delay_sec = 5
  /\ last_op.dt = 2
  /\ last_op.inputs = <<1, 2, 3, 1, 3>>
  /\ last_op.outputs = <<1, 1, 1, 1, 2>>
  /\ Len(last_op.transform.buffer) = 3

\* ------------------------------------------------------------------------
\* C31: a successful config-changing LoadConfig leaves no session and zeroes
\* sim_time, tick_generation and the completed-tick snapshot; a session id
\* that is in no session (so every id issued before the reload) is answered
\* UnknownSession by UpdateSignals with nothing changed, and an id comes
\* back into sessions_ only through RegisterProvider.
C31_ReloadDestroysSessions ==
  [][/\ (last_op'.op = "LoadConfig" /\ last_op'.config_changed)
          => /\ sessions_' = <<>>
             /\ sim_time_' = 0
             /\ tick_generation_' = 0
             /\ Snapshot' = <<0, 0, <<>>>>
     /\ \A s \in SessionIds :
          (/\ loaded_
           /\ s \notin DOMAIN sessions_
           /\ \E b \in Batches : UpdateSignals(s, b))
            => /\ last_op'.error = "UnknownSession"
               /\ last_op'.status = "UNAUTHENTICATED"
               /\ UNCHANGED sessions_
     /\ (DOMAIN sessions_' \ DOMAIN sessions_ # {})
          => last_op'.op = "RegisterProvider"]_vars

\* an UpdateSignals call with the id of a session that a reload destroyed
\* while the session's earlier call was still waiting for generation 1
C31_OldSessionRejected ==
  /\ last_op.op = "UpdateSignals"
  /\ last_op.error = "UnknownSession"
  /\ sessions_ = <<>>
  /\ tick_generation_ = 0
  /\ store_ = [EmptyStore EXCEPT !.physics_driven = physics_owned_signals_]
  /\ \E s \in SessionIds :
       calls[s].pc = "waiting" /\ calls[s].current_generation = 1

\* ------------------------------------------------------------------------
\* C32: the engine command queue is empty in every state between two
\* handlers; a step that completes a tick leaves in the snapshot exactly the
\* commands the rules emit on the store of that tick (so nothing of an
\* earlier tick), and no other step puts a command into the snapshot.
C32_DrainedOncePerTick ==
  [][/\ engine_.command_queue = <<>>
     /\ engine_'.command_queue = <<>>
     /\ IF tick_generation_' = tick_generation_ + 1
          THEN last_completed_commands_' =
                 evaluate_rules(engine_.rules, 1, store_', <<>>)
          ELSE last_completed_commands_' \in {last_completed_commands_, <<>>}]_vars

\* the second tick since the load has just completed and its snapshot holds
\* commands
C32_SecondTickSnapshot ==
  /\ last_op.op = "UpdateSignals"
  /\ last_op.tick_invoked
  /\ last_op.status = "OK"
  /\ tick_generation_ = 2
  /\ last_completed_generation_ = 2
  /\ last_completed_commands_ # <<>>
  /\ engine_.command_queue = <<>>

\* ------------------------------------------------------------------------
\* C33: after clone() the copy has the configuration and the state of the
\* original: over any common prefix of the calls (apply or reset) made on
\* each since the clone the two give the same outputs, whatever was called
\* on the other in between and in whichever order the calls interleave.
C33_CloneIsIndependentCopy ==
  last_op.cloned
    => /\ last_op.op = "take_copy" => last_op.copy = last_op.transform
       /\ \A k \in 1 .. Len(last_op.inputs) :
            (/\ k <= Len(last_op.copy_inputs)
             /\ \A j \in 1 .. k : last_op.inputs[j] = last_op.copy_inputs[j])
              => last_op.outputs[k] = last_op.copy_outputs[k]

\* a delay of two samples cloned with 1 and 3 in its buffer; the original
\* was then reset and applied to 3, the copy applied to 1 and 3: the copy
\* still returns the buffered 1 where the original returns its new input
C33_CopyKeepsBuffer ==
  /\ last_op.cloned
  /\ last_op.transform.type = "delay"
  /\ last_op.transform.delay_sec = 2
  /\ last_op.dt = 1
  /\ last_op.inputs = <<[call |-> "reset", input |-> 0],
                        [call |-> "apply", input |-> 3]>>
  /\ last_op.outputs = <<0, 3>>
  /\ last_op.copy_inputs = <<[call |-> "apply", input |-> 1],
                             [call |-> "apply", input |-> 3]>>
  /\ last_op.copy_outputs = <<1, 3>>

\* ------------------------------------------------------------------------
\* C34: in every reachable state each session's last_tick_generation is
\* nullopt, tick_generation or tick_generation - 1, so that for a session
\* that has submitted the readiness test last_tick_generation >=
\* tick_generation is the same as last_tick_generation = tick_generation.
C34_SessionsWithinOneGeneration ==
  \A s \in DOMAIN sessions_ :
    LET g == sessions_[s].last_tick_generation
    IN /\ \/ g = nullopt
          \/ g = tick_generation_
          \/ g = tick_generation_ - 1 /\ tick_generation_ >= 1
       /\ g # nullopt => (g >= tick_generation_ <=> g = tick_generation_)

\* of two sessions one has submitted for generation 1 and the other is still
\* recorded at generation 0
C34_OneAheadOneBehind ==
  /\ tick_generation_ = 1
  /\ \E s, t \in DOMAIN sessions_ :
       /\ sessions_[s].last_tick_generation = 1
       /\ sessions_[t].last_tick_generation = 0
  /\ \E s \in SessionIds : calls[s].pc = "waiting"

\* ------------------------------------------------------------------------
\* C35: in every reachable state sim_time is tick_generation times dt, and
\* the generation and the time of the completed-tick snapshot are the
\* current tick_generation and sim_time.
C35_TimeIsGenerationTimesDt ==
  /\ sim_time_ = tick_generation_ * dt_
  /\ last_completed_generation_ = tick_generation_
  /\ last_completed_sim_time_ = sim_time_

\* the first tick after a restart (Reset or reload) has completed while a
\* call that entered at generation 1 before the restart is still waiting
C35_FirstTickAfterRestart ==
  /\ last_op.op = "UpdateSignals"
  /\ last_op.tick_invoked
  /\ last_op.status = "OK"
  /\ tick_generation_ = 1
  /\ sim_time_ = dt_
  /\ \E s \in SessionIds :
       calls[s].pc = "waiting" /\ calls[s].current_generation = 1

\* ------------------------------------------------------------------------
\* C36: an UpdateSignals call that entered at generation G and returns
\* tick_occurred = true reports the snapshot of generation G + 1: when its
\* response is populated last_completed_generation is G + 1 and the
\* sim_time it reports is (G + 1) * dt.
C36_ReportsNextGeneration ==
  (last_op.op \in {"UpdateSignals", "WaitReturn"} /\ last_op.tick_occurred)
    => /\ last_completed_generation_ = last_op.generation + 1
       /\ last_op.sim_time_sec = (last_op.generation + 1) * dt_

C38_ErrorRecordsNothing ==
  [][(/\ last_op'.op = "UpdateSignals"
      /\ last_op'.error \in {"NotLoaded", "UnknownSession", "UnknownSignal",
                             "PermissionDenied"})
     => /\ tick_generation_' = tick_generation_
        /\ sim_time_' = sim_time_
        /\ Snapshot' = Snapshot
        /\ engine_' = engine_
        /\ ~last_op'.tick_invoked
        /\ \A s \in DOMAIN sessions_' :
             /\ s \in DOMAIN sessions_
             /\ sessions_'[s].last_tick_generation
                  = sessions_[s].last_tick_generation]_vars

\* at generation 1 a batch of the one session that has not submitted yet
\* was rejected: the session is still recorded at generation 0, and the
\* other session goes on waiting for it
C38_RejectedWhileOtherWaits ==
  /\ last_op.op = "UpdateSignals"
  /\ last_op.error \in {"UnknownSignal", "PermissionDenied"}
  /\ tick_generation_ = 1
  /\ last_op.session_id \in DOMAIN sessions_
  /\ sessions_[last_op.session_id].last_tick_generation = 0
  /\ \E t \in DOMAIN sessions_ :
       /\ sessions_[t].last_tick_generation = 1
       /\ calls[t].pc = "waiting"

\* ------------------------------------------------------------------------
\* C39: engine.tick never fails with a unit mismatch when writing an edge
\* target: every tick the coordinator invokes completes, and after it the
\* unit each edge carried over from its source is the declared unit of its
\* target, whatever accepted writes, ticks and Resets came before.
C39_EdgeUnitsNeverMismatch ==
  [][(last_op'.op = "UpdateSignals" /\ last_op'.tick_invoked)
       => /\ last_op'.error # "TickFailed"
          /\ \A i \in DOMAIN engine_'.edges :
               engine_'.edges[i].target \in DOMAIN store_'.declared_units
                 => StoreRead(store_', engine_'.edges[i].source).unit
                      = store_'.declared_units[engine_'.edges[i].target]]_vars

\* ------------------------------------------------------------------------
\* C40: rendezvous progress.  With a configuration loaded and sessions
\* registered, when every session keeps calling UpdateSignals (again after
\* each return, timeouts included) and no call fails, every generation
\* below the bound is eventually completed: tick_generation increases.
C40_RendezvousProgress ==
  \A g \in 0 .. MaxGen - 1 :
    (loaded_ /\ DOMAIN sessions_ # {} /\ tick_generation_ = g)
      ~> (tick_generation_ = g + 1)

\* both providers are registered, the second generation has just been
\* completed and no call is waiting
C40_SecondGenerationCompleted ==
  /\ last_op.op = "UpdateSignals"
  /\ last_op.tick_invoked
  /\ last_op.status = "OK"
  /\ tick_generation_ = 2
  /\ DOMAIN sessions_ = SessionIds
  /\ \A s \in SessionIds : calls[s].pc = "idle"

====
